---- MODULE Spec2Model ----
(***************************************************************************)
(* Locomotion, ramp, gate and camera-mode core of bnard_ball.               *)
(*                                                                         *)
(* Units: lengths are in centimetres (source metres * 100), velocities in  *)
(* cm/s, angular velocities in mrad/s, angles in mrad, times in ms.        *)
(* Floating point arithmetic of the source is modelled by integer          *)
(* arithmetic in these units (floor division).                             *)
(*                                                                         *)
(* One frame is Experience.update: physics.update, camera.update,          *)
(* world.update (player.update, then rampL.update), renderer.update.  The  *)
(* frame is a sequence of steps guarded by pc; DOM events (keys) and the   *)
(* asynchronous 'ready' events are delivered between frames only, as the   *)
(* JavaScript event loop does.                                             *)
(***************************************************************************)
EXTENDS Integers, Sequences, FiniteSets, TLC

VARIABLES
    pc,             \* position inside Experience.update: idle/camera/player/rampL/render
    delta,          \* Time.delta of the current frame (ms)
    physicsReady,   \* Physics.isReady (the physics world exists)
    playerMade,     \* World.player and World.rampL exist (resources 'ready' fired)
    bodyMade,       \* PlayerVariables.body / collider / Player.collisionMesh exist
    body,           \* the player's RigidBody: pos, vel, ang, gravityScale
    contacts,       \* the engine reports a contact pair with the player's collider
    keys,           \* PlayerVariables.keys
    isFlying,       \* PlayerVariables.isFlying
    isGrounded,     \* PlayerVariables.isGrounded
    flightCtl,      \* targetPitch, targetRoll, currentPitch, currentRoll, currentYaw
    oceanActive,    \* OceanMode.isActive
    groupPos,       \* Player.group.position
    playerRampMode, \* RampL.playerRampMode
    playerBallisticMode, \* RampL.playerBallisticMode
    rampState,      \* RampL.rampState: rampX, vS, lateralZ, vZ
    playerPreviousPos,   \* RampL.playerPreviousPos (<<>> is null)
    cam,            \* CameraVariables: mode, isFreeRoam, savedMode
    tickLog,        \* history: the calls of the current frame so far, in order: those
                    \* of Experience.update and those Player.update and RampL.update make
    calls,          \* history: the calls made by the last step alone
    presses,        \* history: the number of key-down events delivered so far
    gateHist,       \* history: the trajectory seen by RampL.update, relative to the gate
    twin,           \* two runs of RampL.stepRampConstraint from one state, with the
                    \* same tick durations (SpecSolver only)
    pose,           \* CameraVariables: the smoothed position, angle and field of
                    \* view, the saved position, the ramp timer, the position of
                    \* the camera instance (followed by SpecCam only)
    aero            \* an angle of attack and the lift coefficient
                    \* FlightMode.applyPhysics computes for it (SpecAero only)

vars == <<pc, delta, physicsReady, playerMade, bodyMade, body, contacts, keys,
          isFlying, isGrounded, flightCtl, oceanActive, groupPos,
          playerRampMode, playerBallisticMode, rampState, playerPreviousPos,
          cam, tickLog, calls, presses, gateHist, twin, pose, aero>>

----------------------------------------------------------------------------
(* Bounds of the model *)

\* at most this many keys are recorded as held at the same time
MaxHeld == 1

\* at most this many key-down events are delivered (SpecGate only)
MaxPresses == 1

\* each of the two runs of the solver takes at most this many ticks
\* (SpecSolver only)
MaxSolverTicks == 4

\* at most this many frames are followed (SpecCam only)
MaxCamFrames == 4

\* at most this many keydown events are delivered (SpecFlight only)
MaxFlightPresses == 2

\* the counters of gateHist saturate at this value ("this many or more")
MaxCount == 2

\* the difference (cm/s) the integer arithmetic of the model may leave between
\* two speeds that are equal in exact arithmetic (unit vectors are kept in
\* thousandths, speeds reach 25 m/s)
RoundingTol == 10

----------------------------------------------------------------------------
(* Program constants, in model units *)

radius == 100                 \* PlayerVariables.radius = 1
seaLevel == -23000            \* OceanMode.seaLevel = -230
exitThreshold == 300          \* OceanMode.exitThreshold = 3
waterDragPct == 98            \* OceanMode.waterDrag = 0.98
waterBuoyancy == 500          \* OceanMode.waterBuoyancy = 5
torqueStrength == 200         \* PlayerVariables.torqueStrength = 2
airControlStrength == 100     \* PlayerVariables.airControlStrength = 1
spawnImpulseX == 300          \* createBody: applyImpulse({x: 3.0})
rampThresholdX == 1000        \* CameraVariables.rampThresholdX = 10
gateCenterX == 23600          \* RampL.gateCenter.x = 236
gateCenterY == -20800         \* RampL.gateCenter.y = -208
gateCenterZ == 0              \* RampL.gateCenter.z = 0
gateWidth == 4000             \* RampL.gateWidth = 40
gateHeight == 3000            \* RampL.gateHeight = 30
rampL_L == 3000               \* RampL.L = 30
rampOriginX == 22940          \* RampL.rampOrigin.x = 229.4
rampOriginY == -21465         \* RampL.rampOrigin.y = -214.65
rampOriginZ == 0              \* RampL.rampOrigin.z = 0
gravity == 981                \* RampL.gravity = 9.81
substeps == 4                 \* RampL.substeps = 4
rampL_M == 130                \* RampL.M = 1.3, in hundredths
flightG == 980                \* FlightMode.applyPhysics: mass * 9.8
maxPitch == 785               \* PlayerVariables.maxPitch = PI / 4
maxRoll == 1047               \* PlayerVariables.maxRoll = PI / 3
pitchSpeed == 20              \* PlayerVariables.pitchSpeed = 0.02
rollSpeed == 30               \* PlayerVariables.rollSpeed = 0.03

\* mass of the ball: density 5 * (4/3) PI r^3, times 1000
MassMilli == 20944
\* angular inertia of the ball: (2/5) m r^2, times 1000
InertiaMilli == 8378

----------------------------------------------------------------------------
(* Vectors and arithmetic helpers *)

Vec(x, y, z) == <<x, y, z>>
Zero3 == Vec(0, 0, 0)
VAdd(a, b) == Vec(a[1] + b[1], a[2] + b[2], a[3] + b[3])

Abs(n) == IF n < 0 THEN -n ELSE n
Min(a, b) == IF a < b THEN a ELSE b
Max(a, b) == IF a > b THEN a ELSE b
Sign(n) == IF n > 0 THEN 1 ELSE IF n < 0 THEN -1 ELSE 0

\* integer division rounding toward zero, as a float product truncated
DivT(a, b) == IF a >= 0 THEN a \div b ELSE -((-a) \div b)

\* floor of the square root (Math.sqrt), by bisection
RECURSIVE SqrtBis(_, _, _)
SqrtBis(n, lo, hi) ==
    IF hi - lo <= 1 THEN lo
    ELSE LET mid == (lo + hi) \div 2
         IN  IF mid * mid <= n THEN SqrtBis(n, mid, hi) ELSE SqrtBis(n, lo, mid)
Sqrt(n) == IF n <= 0 THEN 0 ELSE SqrtBis(n, 0, Min(n, 46340) + 1)

\* Math.atan2(y, x) in mrad for x >= 0: exact at 0, PI/4 and PI/2, linear in
\* the ratio in between
Atan2Mrad(y, x) ==
    IF x = 0 /\ y = 0 THEN 0
    ELSE IF Abs(y) <= x THEN DivT(785 * y, x)
    ELSE Sign(y) * (1571 - DivT(785 * x, Abs(y)))

----------------------------------------------------------------------------
(* The rigid body, as the physics engine exposes it *)

\* RigidBody.applyImpulse: the linear velocity changes by impulse / mass
ApplyImpulse(b, imp) ==
    [b EXCEPT !.vel = Vec(@[1] + DivT(imp[1] * 1000, MassMilli),
                          @[2] + DivT(imp[2] * 1000, MassMilli),
                          @[3] + DivT(imp[3] * 1000, MassMilli))]

\* RigidBody.applyTorqueImpulse: the angular velocity (mrad/s) changes by
\* torque impulse / angular inertia
ApplyTorqueImpulse(b, t) ==
    [b EXCEPT !.ang = Vec(@[1] + DivT(t[1] * 10000, InertiaMilli),
                          @[2] + DivT(t[2] * 10000, InertiaMilli),
                          @[3] + DivT(t[3] * 10000, InertiaMilli))]

\* PlayerPhysics.createBody: a dynamic body at the spawn point, gravity scale
\* at the engine's default 1, with the initial impulse applied
CreatedBody ==
    ApplyImpulse([pos |-> Vec(0, radius, 0), vel |-> Zero3, ang |-> Zero3,
                  gravityScale |-> 1],
                 Vec(spawnImpulseX, 0, 0))

----------------------------------------------------------------------------
(* Player state threaded through the mode controllers: a record            *)
(*   made (body, collider and collisionMesh exist), body, isFlying,        *)
(*   isGrounded, fc (flight controls), oceanActive, keys, log              *)

Log(p, entry) == [p EXCEPT !.log = Append(@, entry)]

\* FlightMode.activate: toggles the flag, then, only when the collision mesh
\* exists, performs the entry or the exit side effects
Activate(p) ==
    LET q == [p EXCEPT !.isFlying = ~@]
    IN  IF ~q.made THEN q
        ELSE IF q.isFlying
        THEN LET vel == q.body.vel
                 horizontalSpeed == Sqrt(vel[1] * vel[1] + vel[3] * vel[3])
                 velocityPitch == Atan2Mrad(vel[2], horizontalSpeed)
             IN  [q EXCEPT !.body = [@ EXCEPT !.gravityScale = 0, !.ang = Zero3],
                           !.fc = [targetPitch |-> velocityPitch,
                                   currentPitch |-> velocityPitch,
                                   targetRoll |-> 0, currentRoll |-> 0],
                           !.log = @ \o <<"setGravityScale(0)", "setAngvel",
                                          "snapshotTargets">>]
        ELSE [q EXCEPT !.body = [@ EXCEPT !.gravityScale = 1],
                       !.fc = [targetPitch |-> 0, currentPitch |-> 0,
                               targetRoll |-> 0, currentRoll |-> 0],
                       !.log = @ \o <<"setRotation", "zeroTargets",
                                      "setGravityScale(1)">>]

\* the player record of the current state, with an empty call log
PlayerNow ==
    [made |-> bodyMade, body |-> body, isFlying |-> isFlying,
     isGrounded |-> isGrounded, fc |-> flightCtl, oceanActive |-> oceanActive,
     keys |-> keys, log |-> <<>>]

\* writes a player record back to the variables it is made of
StorePlayer(p) ==
    /\ body' = p.body
    /\ isFlying' = p.isFlying
    /\ isGrounded' = p.isGrounded
    /\ flightCtl' = p.fc
    /\ oceanActive' = p.oceanActive
    /\ keys' = p.keys

----------------------------------------------------------------------------
(* Construction and asynchronous initialisation *)

KeyNames == {"w", "s", "a", "d", "space"}
NoKeys == [k \in KeyNames |-> FALSE]
Held(ks) == Cardinality({k \in KeyNames : ks[k]})

\* the program after construction
InitProgram ==
    /\ pc = "idle"
    /\ delta = 0
    /\ physicsReady = FALSE
    /\ playerMade = FALSE
    /\ bodyMade = FALSE
    /\ body = CreatedBody
    /\ contacts = FALSE
    /\ keys = NoKeys
    /\ isFlying = FALSE
    /\ isGrounded = FALSE
    /\ flightCtl = [targetPitch |-> 0, currentPitch |-> 0,
                    targetRoll |-> 0, currentRoll |-> 0]
    /\ oceanActive = FALSE
    /\ groupPos = Zero3
    /\ playerRampMode = FALSE
    /\ playerBallisticMode = FALSE
    /\ rampState = [rampX |-> 0, vS |-> 0, lateralZ |-> 0, vZ |-> 0]
    /\ playerPreviousPos = <<>>
    \* the Camera constructor toggles free roam on
    /\ cam = [mode |-> "default", isFreeRoam |-> TRUE, savedMode |-> "default"]
    /\ tickLog = <<>>
    /\ calls = <<>>
    /\ presses = 0
    /\ gateHist = [side |-> "none", changes |-> 0, kind |-> "none", activations |-> 0]

\* no lift coefficient is followed apart from the program's own
NoAero == [alpha |-> 0, CL |-> <<>>]

\* no run of the solver is followed apart from the program's own
NoTwin == [start |-> [rampX |-> 0, vS |-> 0, lateralZ |-> 0, vZ |-> 0],
           dts |-> <<>>, a |-> <<>>, b |-> <<>>]


\* Physics.init resolves: the world exists; the 'ready' listener registered by
\* PlayerPhysics.setup (if the player was constructed first) creates the body
PhysicsReady ==
    /\ pc = "idle"
    /\ ~physicsReady
    /\ physicsReady' = TRUE
    /\ bodyMade' = playerMade
    /\ body' = CreatedBody
    /\ calls' = IF playerMade THEN <<"createBody", "applyImpulse">> ELSE <<>>
    /\ UNCHANGED <<pc, delta, playerMade, contacts, keys, isFlying, isGrounded,
                   flightCtl, oceanActive, groupPos, playerRampMode,
                   playerBallisticMode, rampState, playerPreviousPos, cam, tickLog, presses, gateHist, twin, pose, aero>>

\* Resources 'ready': World constructs RampL and Player; PlayerPhysics.setup
\* creates the body at once when the physics world already exists
ResourcesReady ==
    /\ pc = "idle"
    /\ ~playerMade
    /\ playerMade' = TRUE
    /\ bodyMade' = physicsReady
    /\ body' = CreatedBody
    /\ calls' = IF physicsReady THEN <<"createBody", "applyImpulse">> ELSE <<>>
    /\ UNCHANGED <<pc, delta, physicsReady, contacts, keys, isFlying, isGrounded,
                   flightCtl, oceanActive, groupPos, playerRampMode,
                   playerBallisticMode, rampState, playerPreviousPos, cam, tickLog, presses, gateHist, twin, pose, aero>>

----------------------------------------------------------------------------
(* Keyboard events (PlayerInput.setupListeners, FreeRoamMode)              *)

\* keydown: records the key; the space bar also calls FlightMode.activate
KeyDownHandler(p, k) ==
    LET q == [p EXCEPT !.keys[k] = TRUE]
    IN  IF k = "space" THEN Activate(q) ELSE q

KeyDown(k) ==
    /\ pc = "idle"
    /\ playerMade
    /\ Held([keys EXCEPT ![k] = TRUE]) <= MaxHeld
    /\ LET p == KeyDownHandler(PlayerNow, k)
       IN  /\ StorePlayer(p)
           /\ calls' = p.log
    /\ UNCHANGED <<pc, delta, physicsReady, playerMade, bodyMade, contacts,
                   groupPos, playerRampMode, playerBallisticMode, rampState,
                   playerPreviousPos, cam, tickLog, gateHist, twin, pose, aero>>

\* keyup: clears the key
KeyUp(k) ==
    /\ pc = "idle"
    /\ playerMade
    /\ keys[k]
    /\ keys' = [keys EXCEPT ![k] = FALSE]
    /\ calls' = <<>>
    /\ UNCHANGED <<pc, delta, physicsReady, playerMade, bodyMade, body, contacts,
                   isFlying, isGrounded, flightCtl, oceanActive, groupPos,
                   playerRampMode, playerBallisticMode, rampState,
                   playerPreviousPos, cam, tickLog, presses, gateHist, twin, pose, aero>>

----------------------------------------------------------------------------
(* Vector helpers in thousandths (a unit vector has length 1000)           *)

Len3(v) == Sqrt(v[1] * v[1] + v[2] * v[2] + v[3] * v[3])
Scale3(v, num, den) == Vec(DivT(v[1] * num, den), DivT(v[2] * num, den),
                           DivT(v[3] * num, den))
\* THREE.Vector3.normalize: the zero vector stays zero
Normalize(v) == IF Len3(v) = 0 THEN Zero3 ELSE Scale3(v, 1000, Len3(v))
Cross(a, b) == Vec(DivT(a[2] * b[3] - a[3] * b[2], 1000),
                   DivT(a[3] * b[1] - a[1] * b[3], 1000),
                   DivT(a[1] * b[2] - a[2] * b[1], 1000))
Clamp(x, lo, hi) == Max(lo, Min(hi, x))

\* Math.sin and Math.cos of an angle in mrad, in thousandths (Taylor, |x| <= 1.1)
SinM(x) == x - DivT(DivT(x * x, 1000) * x, 6000)
CosM(x) == 1000 - DivT(x * x, 2000) + DivT(DivT(x * x, 1000) * DivT(x * x, 1000), 24000)
\* Math.exp(-t) for t in thousandths, 0 <= t <= 500, in thousandths (Taylor)
ExpNegM(t) == 1000 - t + DivT(t * t, 2000) - DivT(DivT(t * t, 1000) * t, 6000)

----------------------------------------------------------------------------
(* FlightMode *)

maxAlpha == 262        \* 15 degrees
alphaStall == 209      \* 12 degrees
TwoPiM == 6283         \* 2 PI, in thousandths
rhoM == 1225           \* air density 1.225, in thousandths
stallSpeed == 1500     \* 15 m/s
minSpeed == 500        \* 5 m/s
CD0M == 30             \* 0.03
kDragM == 80           \* 0.08
CLMaxM == 1200         \* clamp of CL

\* lift coefficient (thousandths) of an angle of attack (mrad)
LiftCoefficient(alphaRad) ==
    LET alphaAbs == Abs(alphaRad)
        CL == IF alphaAbs < alphaStall
              THEN DivT(TwoPiM * alphaRad, 1000)
              ELSE LET peakCL == DivT(TwoPiM * alphaStall, 1000) * Sign(alphaRad)
                       excessAlpha == alphaAbs - alphaStall
                       stallDropoff == ExpNegM(excessAlpha * 8)
                   IN  DivT(DivT(peakCL * stallDropoff, 1000) * 3, 10)
    IN  Clamp(CL, -CLMaxM, CLMaxM)

\* the impulse (x 100) of one flight tick: (gravity + lift + drag) * dt
FlightImpulse(velocity, pitch, roll, dtMs) ==
    LET speed == Len3(velocity)
        velDir == IF speed > 10 THEN Scale3(velocity, 1000, speed)
                  ELSE Scale3(velocity, 10, 1)
        velocityAngle == Atan2Mrad(velocity[2],
                            Sqrt(velocity[1] * velocity[1] + velocity[3] * velocity[3]))
        alphaRad == Clamp(pitch - velocityAngle, -maxAlpha, maxAlpha)
        CL == LiftCoefficient(alphaRad)
        \* q * S = 0.5 * rho * speed^2 * 2, in 1/100 N
        qS == DivT(DivT(speed * speed, 10000) * rhoM, 10)
        stallFactor == IF speed < stallSpeed
                       THEN Max(0, DivT((speed - minSpeed) * (speed - minSpeed),
                                        DivT((stallSpeed - minSpeed)
                                             * (stallSpeed - minSpeed), 1000)))
                       ELSE 1000
        liftMagnitude == DivT(DivT(qS * CL, 1000) * stallFactor, 1000)
        refUp == Vec(0, 1000, 0)
        right0 == Cross(velDir, refUp)
        right == Normalize(IF Len3(right0) < 1 THEN Cross(velDir, Vec(1000, 0, 0))
                           ELSE right0)
        liftDir0 == Normalize(Cross(right, velDir))
        liftDir == IF Abs(roll) > 1
                   THEN VAdd(Scale3(liftDir0, CosM(roll), 1000),
                             Scale3(Cross(velDir, liftDir0), SinM(roll), 1000))
                   ELSE liftDir0
        liftForce == Scale3(liftDir, liftMagnitude, 1000)
        CD == CD0M + DivT(kDragM * DivT(CL * CL, 1000), 1000)
        dragMagnitude == DivT(qS * CD, 1000)
        dragForce == Scale3(velDir, -dragMagnitude, 1000)
        gravityForce == Vec(0, -DivT(MassMilli * flightG, 1000), 0)
        totalForce == VAdd(VAdd(gravityForce, liftForce), dragForce)
    IN  Scale3(totalForce, dtMs, 1000)

\* FlightMode.applyPhysics
FlightApplyPhysics(p, dtMs) ==
    IF ~p.made \/ ~p.isFlying THEN p
    ELSE [p EXCEPT !.body = [ApplyImpulse(@, FlightImpulse(p.body.vel,
                                 p.fc.currentPitch, p.fc.currentRoll, dtMs))
                             EXCEPT !.ang = Zero3],
                   !.log = @ \o <<"applyImpulse", "setAngvel">>]

\* FlightMode.updateControls
FlightUpdateControls(p) ==
    IF ~p.made \/ ~p.isFlying THEN p
    ELSE LET tp == IF p.keys["w"]
                   THEN Max(p.fc.targetPitch - pitchSpeed, -maxPitch)
                   ELSE IF p.keys["s"]
                   THEN Min(p.fc.targetPitch + pitchSpeed, maxPitch)
                   ELSE p.fc.targetPitch
             tr == IF p.keys["a"]
                   THEN Max(p.fc.targetRoll - rollSpeed, -maxRoll)
                   ELSE IF p.keys["d"]
                   THEN Min(p.fc.targetRoll + rollSpeed, maxRoll)
                   ELSE p.fc.targetRoll
         IN  [p EXCEPT !.fc = [targetPitch |-> tp, targetRoll |-> tr,
                               currentPitch |-> @.currentPitch
                                                + DivT(tp - @.currentPitch, 10),
                               currentRoll |-> @.currentRoll
                                               + DivT(tr - @.currentRoll, 10)],
                       !.body = [@ EXCEPT !.ang = Zero3],
                       !.log = @ \o <<"setAngvel">>]

\* FlightMode.update
FlightUpdate(p, dtMs) == FlightUpdateControls(FlightApplyPhysics(p, dtMs))

----------------------------------------------------------------------------
(* OceanMode, AirMode, GroundMode, PlayerPhysics *)

\* a test without the hysteresis band: the flag follows y <= seaLevel; C2 tells
\* OceanMode.isInOcean from it
IsInOceanNoBand(p) ==
    IF ~p.made THEN p ELSE [p EXCEPT !.oceanActive = (p.body.pos[2] <= seaLevel)]

\* a test that flips the flag on every evaluation inside the band between sea
\* level and the exit threshold; C37 tells OceanMode.isInOcean from it
IsInOceanFlipsInBand(p) ==
    IF ~p.made THEN p
    ELSE IF p.body.pos[2] <= seaLevel THEN [p EXCEPT !.oceanActive = TRUE]
    ELSE IF p.body.pos[2] > seaLevel + exitThreshold
    THEN [p EXCEPT !.oceanActive = FALSE]
    ELSE [p EXCEPT !.oceanActive = ~@]

\* OceanMode.isInOcean: the hysteresis test; it writes OceanMode.isActive
IsInOceanState(p) ==
    IF ~p.made THEN p
    ELSE IF p.body.pos[2] <= seaLevel THEN [p EXCEPT !.oceanActive = TRUE]
    ELSE IF p.body.pos[2] > seaLevel + exitThreshold
    THEN [p EXCEPT !.oceanActive = FALSE]
    ELSE p

\* the value OceanMode.isInOcean returns
IsInOceanResult(p) == p.made /\ IsInOceanState(p).oceanActive

\* water drag alone, without leaving flight first; C5 tells OceanMode.update
\* from it
OceanUpdateDragOnly(p) ==
    IF ~p.made THEN p
    ELSE [p EXCEPT !.body = [@ EXCEPT !.vel = Scale3(@, waterDragPct, 100),
                                      !.ang = Scale3(@, waterDragPct, 100)],
                   !.log = @ \o <<"setLinvel", "setAngvel">>]

\* OceanMode.update
OceanUpdate(p) ==
    IF ~p.made THEN p
    ELSE LET q == IF p.isFlying THEN Activate(p) ELSE p
             velocity == q.body.vel
             position == q.body.pos
             dragged == [q.body EXCEPT !.vel = Scale3(velocity, waterDragPct, 100)]
             depthBelowSurface == seaLevel - position[2]
             buoyed == IF depthBelowSurface > 0
                       THEN ApplyImpulse(dragged,
                                Vec(0, DivT(waterBuoyancy * Min(depthBelowSurface, 100),
                                            100), 0))
                       ELSE dragged
             angvel == buoyed.ang
         IN  [q EXCEPT !.body = [buoyed EXCEPT !.ang = Scale3(angvel, waterDragPct, 100)],
                       !.log = @ \o <<"setLinvel">>
                                 \o (IF depthBelowSurface > 0 THEN <<"applyImpulse">>
                                     ELSE <<>>)
                                 \o <<"setAngvel">>]

\* the controllers' directional key handling: one call per held key, in the
\* order w, s, a, d; dirs gives the vector of each key
RECURSIVE KeyCalls(_, _, _, _, _)
KeyCalls(p, order, dirs, torque, i) ==
    IF i > Len(order) THEN p
    ELSE LET k == order[i]
             q == IF ~p.keys[k] THEN p
                  ELSE IF torque
                  THEN [p EXCEPT !.body = ApplyTorqueImpulse(@, dirs[k]),
                                 !.log = Append(@, "applyTorqueImpulse")]
                  ELSE [p EXCEPT !.body = ApplyImpulse(@, dirs[k]),
                                 !.log = Append(@, "applyImpulse")]
         IN  KeyCalls(q, order, dirs, torque, i + 1)

WSAD == <<"w", "s", "a", "d">>

\* AirMode.update; forward is Camera.getForwardDirection (unit, thousandths)
AirUpdate(p, forward) ==
    IF ~p.made \/ p.isGrounded \/ p.isFlying THEN p
    ELSE LET right == Cross(forward, Vec(0, 1000, 0))
             forwardFlat == Normalize(Vec(forward[1], 0, forward[3]))
             rightFlat == Normalize(Vec(right[1], 0, right[3]))
             f == Scale3(Vec(forwardFlat[1], 0, forwardFlat[3]), airControlStrength, 1000)
             r == Scale3(Vec(rightFlat[1], 0, rightFlat[3]), airControlStrength, 1000)
         IN  KeyCalls(p, WSAD,
                      [k \in {"w", "s", "a", "d"} |->
                          CASE k = "w" -> f
                            [] k = "s" -> Scale3(f, -1, 1)
                            [] k = "a" -> Scale3(r, -1, 1)
                            [] k = "d" -> r],
                      FALSE, 1)

\* GroundMode.update
GroundUpdate(p, forward) ==
    IF ~p.made \/ ~p.isGrounded \/ p.isFlying THEN p
    ELSE LET right == Cross(forward, Vec(0, 1000, 0))
             up == Vec(0, 1000, 0)
             tf == Scale3(Normalize(Cross(up, forward)), torqueStrength, 1000)
             tr == Scale3(Normalize(Cross(up, right)), torqueStrength, 1000)
         IN  KeyCalls(p, WSAD,
                      [k \in {"w", "s", "a", "d"} |->
                          CASE k = "w" -> tf
                            [] k = "s" -> Scale3(tf, -1, 1)
                            [] k = "a" -> Scale3(tr, -1, 1)
                            [] k = "d" -> tr],
                      TRUE, 1)

\* a grounded flag that is integrated over the ticks: once set it stays set;
\* C33 tells checkGrounded from it
CheckGroundedSticky(p, contactPairs) ==
    IF ~p.made THEN p
    ELSE [p EXCEPT !.isGrounded = @ \/ contactPairs,
                   !.log = Append(@, "checkGrounded")]

\* PlayerPhysics.checkGrounded: recomputed from the contact pairs of this tick
CheckGrounded(p, contactPairs) ==
    IF ~p.made THEN p
    ELSE [p EXCEPT !.isGrounded = contactPairs, !.log = Append(@, "checkGrounded")]

----------------------------------------------------------------------------
(* Player.update *)

\* a dispatch that tests the flying flag before the submerged test; C1 tells
\* Player.update from it
DispatchFlyingFirst(p, forward, dtMs) ==
    IF p.isFlying
    THEN FlightUpdate(Log(Log(IsInOceanState(p), "isInOcean"),
                          "flightMode.update"), dtMs)
    ELSE IF IsInOceanResult(p)
    THEN OceanUpdate(Log(Log(IsInOceanState(p), "isInOcean"), "oceanMode.update"))
    ELSE IF ~p.isGrounded
    THEN AirUpdate(Log(Log(IsInOceanState(p), "isInOcean"), "airMode.update"),
                   forward)
    ELSE GroundUpdate(Log(Log(IsInOceanState(p), "isInOcean"),
                          "groundMode.update"), forward)

\* the chain of Player.update after the isInOcean getter has run (q is the
\* player after it, inOcean its result): first match of ocean, flying, air,
\* ground
DispatchAfter(q, inOcean, forward, dtMs) ==
    IF inOcean THEN OceanUpdate(Log(q, "oceanMode.update"))
    ELSE IF q.isFlying THEN FlightUpdate(Log(q, "flightMode.update"), dtMs)
    ELSE IF ~q.isGrounded THEN AirUpdate(Log(q, "airMode.update"), forward)
    ELSE GroundUpdate(Log(q, "groundMode.update"), forward)

\* the mode dispatch of Player.update
Dispatch(p, forward, dtMs) ==
    DispatchAfter(Log(IsInOceanState(p), "isInOcean"), IsInOceanResult(p),
                  forward, dtMs)

\* Player.update up to the mode controllers (the visuals follow in the action)
PlayerUpdateModes(p, contactPairs, forward, dtMs) ==
    Dispatch(CheckGrounded(Log(p, "player.update"), contactPairs), forward, dtMs)

----------------------------------------------------------------------------
(* RampL: the curve *)

\* progress as a fraction of the length, in thousandths
Frac(x) == DivT(x * 1000, rampL_L)

\* the slope polynomial of RampL.dy at the fraction f = x / L
SlopeAt(f) ==
    DivT(30 * (rampL_M - 100) * DivT(f * f, 1000), 1000)
    + DivT(20 * (200 - rampL_M) * f, 1000) - 1000

\* RampL.dy: the slope y'(x) = 3((M-1)/L^2) x^2 + 2((2-M)/L) x - 1, in thousandths
dy(x) == SlopeAt(Frac(x))

\* the height polynomial of RampL.y at progress x with fraction f = x / L
HeightAt(x, f) ==
    DivT(x * (DivT(10 * (rampL_M - 100) * DivT(f * f, 1000), 1000)
              + DivT(10 * (200 - rampL_M) * f, 1000) - 1000), 1000)

\* RampL.y: the height y(x) = ((M-1)/L^2) x^3 + ((2-M)/L) x^2 - x, in cm
y(x) == HeightAt(x, Frac(x))

\* sqrt(1 + slope^2), in thousandths
Denom(slope) == Sqrt(1000000 + slope * slope)

\* (-slope, 1) / denom, in thousandths
NormalOf(slope, denom) ==
    [nx |-> DivT(-slope * 1000, denom), ny |-> DivT(1000000, denom)]

\* RampL.getNormal: (-y', 1) normalised, in thousandths
NormalAtSlope(slope) == NormalOf(slope, Denom(slope))
getNormal(x) == NormalAtSlope(dy(x))

\* (1, slope) / denom, in thousandths
TangentOf(slope, denom) ==
    [tx |-> DivT(1000000, denom), ty |-> DivT(slope * 1000, denom)]

\* the unit tangent (1, y') normalised, in thousandths
TangentAtSlope(slope) == TangentOf(slope, Denom(slope))
Tangent(x) == TangentAtSlope(dy(x))

\* the ball's centre: the curve point offset by the radius along the normal n
OffsetPosition(x, z, n) ==
    Vec(rampOriginX + x + DivT(n.nx * radius, 1000),
        rampOriginY + y(x) + DivT(n.ny * radius, 1000),
        rampOriginZ + z)

\* the world position of the ball on the curve at progress x, lateral offset z
CurvePosition(x, z) == OffsetPosition(x, z, getNormal(x))

\* arc-speed vS along the tangent t, with lateral velocity vZ
AlongTangent(vS, vZ, t) ==
    Vec(DivT(vS * t.tx, 1000), DivT(vS * t.ty, 1000), vZ)

\* the world velocity of arc-speed vS at progress x with lateral velocity vZ
CurveVelocity(x, vS, vZ) == AlongTangent(vS, vZ, Tangent(x))

\* a substep the held space bar brakes: a solver that reads the keyboard; C15
\* tells RampL.stepRampConstraint from it
SubStepEndBraked(st, subDt, vS1, x1) ==
    [rampX |-> IF x1 < 0 THEN 0 ELSE IF x1 >= rampL_L THEN rampL_L ELSE x1,
     vS |-> IF keys["space"] THEN DivT(vS1, 2)
            ELSE IF x1 < 0 THEN Abs(vS1) ELSE vS1,
     lateralZ |-> st.lateralZ + DivT(st.vZ * subDt, 10000),
     vZ |-> st.vZ,
     exitedRamp |-> x1 >= rampL_L]

\* a substep that lets progress run past both ends of the curve; C26 tells
\* RampL.stepRampConstraint from it
SubStepEndOvershoots(st, subDt, vS1, x1) ==
    [rampX |-> x1,
     vS |-> vS1,
     lateralZ |-> st.lateralZ + DivT(st.vZ * subDt, 10000),
     vZ |-> st.vZ,
     exitedRamp |-> x1 >= rampL_L]

\* the end of a substep: reflection at the start of the ramp, exit at its end
SubStepEnd(st, subDt, vS1, x1) ==
    [rampX |-> IF x1 < 0 THEN 0 ELSE IF x1 >= rampL_L THEN rampL_L ELSE x1,
     vS |-> IF x1 < 0 THEN Abs(vS1) ELSE vS1,
     lateralZ |-> st.lateralZ + DivT(st.vZ * subDt, 10000),
     vZ |-> st.vZ,
     exitedRamp |-> x1 >= rampL_L]

\* the advance of a substep: dx = vS * dt / sqrt(1 + y'^2)
SubStepMove(st, subDt, denom, vS1) ==
    SubStepEnd(st, subDt, vS1,
               st.rampX + DivT(DivT(vS1 * subDt, 10000) * 1000, denom))

\* a substep without the pull of gravity along the curve; C25 tells
\* RampL.stepRampConstraint from it
SubStepCoasts(st, subDt, slope, denom) == SubStepMove(st, subDt, denom, st.vS)

\* the acceleration of a substep: aT = -g y' / sqrt(1 + y'^2)
SubStepAccel(st, subDt, slope, denom) ==
    SubStepMove(st, subDt, denom,
                st.vS + DivT(DivT(-gravity * slope, denom) * subDt, 10000))

SubStepAtSlope(st, subDt, slope) == SubStepAccel(st, subDt, slope, Denom(slope))

\* one substep of RampL.stepRampConstraint; subDt in units of 0.1 ms.
\* The record carries exitedRamp.
SubStep(st, subDt) == SubStepAtSlope(st, subDt, dy(st.rampX))

\* the substep loop of RampL.stepRampConstraint, left at the first exit
RECURSIVE SubSteps(_, _, _)
SubSteps(st, subDt, i) ==
    IF i >= substeps \/ st.exitedRamp THEN st
    ELSE SubSteps(SubStep(st, subDt), subDt, i + 1)

\* the result of RampL.stepRampConstraint for the state st the loop ends in
StepResult(st) ==
    [state |-> [rampX |-> st.rampX, vS |-> st.vS, lateralZ |-> st.lateralZ,
                vZ |-> st.vZ],
     newPosition |-> CurvePosition(st.rampX, st.lateralZ),
     newVelocity |-> CurveVelocity(st.rampX, st.vS, st.vZ),
     exitedRamp |-> st.exitedRamp]

\* RampL.stepRampConstraint: the new ramp state, position, velocity and exit flag
stepRampConstraint(state, dtMs) ==
    StepResult(SubSteps([rampX |-> state.rampX, vS |-> state.vS,
                         lateralZ |-> state.lateralZ, vZ |-> state.vZ,
                         exitedRamp |-> FALSE],
                        DivT(dtMs * 10, substeps), 0))

----------------------------------------------------------------------------
(* RampL: state threaded through RampL.update: a record                    *)
(*   mode (playerRampMode), ballistic, st (rampState), prev                *)
(*   (playerPreviousPos), body, log                                        *)

\* an entry that writes progress and arc-speed and leaves the lateral offset and
\* the lateral velocity of the ramp state as they are; C28 tells
\* RampL.enterRampMode from it
EnterKeepsLateral(r, rampX, vS) ==
    [r EXCEPT !.st = [@ EXCEPT !.rampX = rampX, !.vS = vS],
              !.body = [@ EXCEPT !.pos = CurvePosition(rampX, r.st.lateralZ),
                                 !.vel = CurveVelocity(rampX, vS, r.st.vZ)],
              !.mode = TRUE,
              !.ballistic = FALSE,
              !.log = @ \o <<"enterRampMode", "setTranslation", "setLinvel">>]

\* an entry that sets the ramp-mode flag and leaves the ballistic flag as it
\* is; C34 tells RampL.enterRampMode from it
EnterKeepsBallistic(r, rampX, vS) ==
    [r EXCEPT !.st = [rampX |-> rampX, vS |-> vS,
                      lateralZ |-> r.body.pos[3] - rampOriginZ,
                      vZ |-> r.body.vel[3]],
              !.body = [@ EXCEPT !.pos = CurvePosition(rampX,
                                             r.body.pos[3] - rampOriginZ),
                                 !.vel = CurveVelocity(rampX, vS, r.body.vel[3])],
              !.mode = TRUE,
              !.log = @ \o <<"enterRampMode", "setTranslation", "setLinvel">>]

\* the writes of RampL.enterRampMode once progress and arc-speed are known
EnterAt(r, rampX, vS) ==
    [r EXCEPT !.st = [rampX |-> rampX, vS |-> vS,
                      lateralZ |-> r.body.pos[3] - rampOriginZ,
                      vZ |-> r.body.vel[3]],
              !.body = [@ EXCEPT !.pos = CurvePosition(rampX,
                                             r.body.pos[3] - rampOriginZ),
                                 !.vel = CurveVelocity(rampX, vS, r.body.vel[3])],
              !.mode = TRUE,
              !.ballistic = FALSE,
              !.log = @ \o <<"enterRampMode", "setTranslation", "setLinvel">>]

\* an entry that takes the horizontal speed for the arc-speed; C14 tells
\* RampL.enterRampMode from it
EnterOnHorizontal(r, rampX, t) == EnterAt(r, rampX, r.body.vel[1])

\* the projection of the velocity on the tangent t: the arc-speed on entry
EnterOnTangent(r, rampX, t) ==
    EnterAt(r, rampX, DivT(r.body.vel[1] * t.tx + r.body.vel[2] * t.ty, 1000))

EnterAtProgress(r, rampX) == EnterOnTangent(r, rampX, Tangent(rampX))

\* RampL.enterRampMode
enterRampMode(r) ==
    EnterAtProgress(r, Max(0, Min(r.body.pos[1] - rampOriginX, rampL_L)))

\* an exit that reports itself and leaves the flags alone; C13 tells
\* RampL.exitRampMode from it
exitWithoutFlags(r) == Log(r, "exitRampMode")

\* RampL.exitRampMode
exitRampMode(r) ==
    [r EXCEPT !.mode = FALSE, !.ballistic = TRUE, !.log = Append(@, "exitRampMode")]

\* the horizontal unit normal of the gate plane (thousandths): the rotation
\* (PI/4, PI/2, 0) in order YXZ turns (0, 0, 1) into (0.707, -0.707, 0); with
\* the vertical component dropped and normalised this is (1, 0, 0)
gateNormal == Vec(1000, 0, 0)

Dot(a, b) == DivT(a[1] * b[1] + a[2] * b[2] + a[3] * b[3], 1000)

\* signed distance of a position to the gate plane, vertical ignored
SignedDistance(pos) ==
    Dot(Vec(pos[1] - gateCenterX, 0, pos[3] - gateCenterZ), gateNormal)

\* the bounds test of the gate: height and lateral distance
WithinY(pos) ==
    /\ pos[2] >= gateCenterY - gateHeight \div 2
    /\ pos[2] <= gateCenterY + gateHeight \div 2
WithinWidth(pos) ==
    LET gateRight == Vec(-gateNormal[3], 0, gateNormal[1])
    IN  Abs(Dot(Vec(pos[1] - gateCenterX, 0, pos[3] - gateCenterZ), gateRight))
            <= gateWidth \div 2

\* a forward test that needs the new distance to be positive; C9 tells the
\* gate detector from it
crossedForwardStrict(prev, pos) ==
    prev # <<>> /\ SignedDistance(prev[1]) < 0 /\ SignedDistance(pos) > 0

crossedForward(prev, pos) ==
    prev # <<>> /\ SignedDistance(prev[1]) < 0 /\ SignedDistance(pos) >= 0
crossedBackward(prev, pos) ==
    prev # <<>> /\ SignedDistance(prev[1]) > 0 /\ SignedDistance(pos) <= 0

\* a ramp-mode branch that keeps the solver's state and leaves the body to the
\* physics step; C12 tells RampL.update from it
WriteStateOnly(r, result) ==
    [r EXCEPT !.st = result.state, !.log = @ \o <<"stepRampConstraint">>]

\* the writes of the ramp-mode branch for the solver's result
WriteStepResult(r, result) ==
    [r EXCEPT !.st = result.state,
              !.body = [@ EXCEPT !.pos = result.newPosition,
                                 !.vel = result.newVelocity],
              !.log = @ \o <<"stepRampConstraint", "setTranslation", "setLinvel">>]

\* the ramp-mode branch after the solver: write, then leave the ramp on exit
ApplyStepResult(r, result) ==
    IF result.exitedRamp THEN exitRampMode(WriteStepResult(r, result))
    ELSE WriteStepResult(r, result)

\* the ramp-mode branch of RampL.update
RampModePhysics(r, dtMs) == ApplyStepResult(r, stepRampConstraint(r.st, dtMs))

\* a gate test without the bounds; C10 tells the gate detector from it
GateFiresUnbounded(r, playerPos) ==
    crossedForward(r.prev, playerPos) /\ ~r.mode

\* a gate test that fires on any position on or beyond the plane inside the
\* bounds, whatever the remembered position; C35 tells RampL.update from it
GateFiresOnPresence(r, playerPos) ==
    /\ WithinY(playerPos) /\ WithinWidth(playerPos)
    /\ SignedDistance(playerPos) >= 0
    /\ ~r.mode

\* the gate test of RampL.update: inside the bounds, crossed forward, and ramp
\* mode inactive
GateFires(r, playerPos) ==
    /\ WithinY(playerPos) /\ WithinWidth(playerPos)
    /\ crossedForward(r.prev, playerPos)
    /\ ~r.mode

\* a detector that remembers a position only when it has none; C11 tells
\* RampL.update from it
RememberFirst(r, playerPos) ==
    IF r.prev = <<>> THEN [r EXCEPT !.prev = <<playerPos>>] ELSE r

\* the last statement of RampL.update: the position read on entry is remembered
Remember(r, playerPos) == [r EXCEPT !.prev = <<playerPos>>]

\* the gate-detection branch of RampL.update; playerPos was read on entry
GateDetection(r, playerPos) ==
    IF GateFires(r, playerPos)
    THEN Remember(enterRampMode(Log(r, "gateDetection")), playerPos)
    ELSE Remember(Log(r, "gateDetection"), playerPos)

\* RampL.update with the body present
RampLUpdate(r, dtMs) ==
    IF r.mode THEN RampModePhysics(Log(r, "rampL.update"), dtMs)
    ELSE GateDetection(Log(r, "rampL.update"), r.body.pos)

----------------------------------------------------------------------------
(* Camera *)

\* a resolution that asks the flying flag first; C16 tells Camera.update from it
ResolveFlightFirst(inOcean, flying, ballX) ==
    IF flying THEN "flight"
    ELSE IF inOcean THEN "ocean"
    ELSE IF ballX > rampThresholdX THEN "ramp"
    ELSE "default"

\* the mode resolution of Camera.update: ocean, flight, ramp threshold, default
ResolveMode(inOcean, flying, ballX) ==
    IF inOcean THEN "ocean"
    ELSE IF flying THEN "flight"
    ELSE IF ballX > rampThresholdX THEN "ramp"
    ELSE "default"

\* FreeRoamMode.toggle with enter and exit
FreeRoamToggle(c) ==
    IF ~c.isFreeRoam
    THEN [c EXCEPT !.isFreeRoam = TRUE, !.savedMode = c.mode]
    ELSE [c EXCEPT !.isFreeRoam = FALSE, !.mode = c.savedMode]

\* the 'r' key
ToggleFreeRoam ==
    /\ pc = "idle"
    /\ cam' = FreeRoamToggle(cam)
    /\ calls' = <<>>
    /\ UNCHANGED <<pc, delta, physicsReady, playerMade, bodyMade, body, contacts,
                   keys, isFlying, isGrounded, flightCtl, oceanActive, groupPos,
                   playerRampMode, playerBallisticMode, rampState,
                   playerPreviousPos, tickLog, presses, gateHist, twin, aero>>

----------------------------------------------------------------------------
(* The camera's pose: CameraVariables and the four follow modes.  Lengths in *)
(* cm, speeds in cm/s, angles in mrad, fields of view in thousandths of a    *)
(* degree, lerp factors in thousandths, times in ms                          *)

offsetDistance == 1000            \* CameraVariables.offsetDistance = 10
offsetHeight == 250               \* CameraVariables.offsetHeight = 2.5
positionLerpSpeed == 20           \* CameraVariables.positionLerpSpeed = 0.02
rotationLerpSpeed == 20           \* CameraVariables.rotationLerpSpeed = 0.02
baseFov == 35000                  \* CameraVariables.baseFov = 35
minFov == 25000                   \* CameraVariables.minFov = 25
maxFov == 40000                   \* CameraVariables.maxFov = 40
fovLerpSpeed == 30                \* CameraVariables.fovLerpSpeed = 0.03
maxSpeedForFov == 800             \* CameraVariables.maxSpeedForFov = 8
rampHeightStart == 250            \* CameraVariables.rampHeightStart = 2.5
rampHeightEnd == 100              \* CameraVariables.rampHeightEnd = 1.0
rampHeightAnimDuration == 3000    \* CameraVariables.rampHeightAnimDuration
flightCameraDistance == 800       \* CameraVariables.flightCameraDistance = 8
flightCameraHeight == 100         \* CameraVariables.flightCameraHeight = 1
flightFov == 50000                \* CameraVariables.flightFov = 50
flightLerpSpeed == 50             \* CameraVariables.flightLerpSpeed = 0.05
oceanCameraDistance == 500        \* CameraVariables.oceanCameraDistance = 5
oceanCameraHeight == 300          \* CameraVariables.oceanCameraHeight = 3
oceanFov == 50000                 \* CameraVariables.oceanFov = 50
oceanLerpSpeed == 5               \* CameraVariables.oceanLerpSpeed = 0.005
rampMinSpeed == 2000              \* RampCameraMode.update: minSpeed = 20
rampMaxSpeed == 12000             \* RampCameraMode.update: maxSpeed = 120
rampTargetDistance == 20          \* RampCameraMode.update: targetDistance = 0.2
rampStartDistance == 1000         \* RampCameraMode.update: startDistance = 10
rampBaseLerp == 20                \* RampCameraMode.update: 0.02
rampLerpGain == 150               \* RampCameraMode.update: 0.15
minRampFov == 25000               \* RampCameraMode.update: minRampFov = 25
maxRampFov == 100000              \* RampCameraMode.update: maxRampFov = 100
moveThreshold == 10               \* speed > 0.1 in the follow modes
PiM == 3142                       \* Math.PI, in thousandths

\* Date.now() when the program is loaded, counted from an origin that lies
\* rampHeightAnimDuration before it: the timer, which starts at 0, has elapsed
ClockAtLoad == 3000

\* CameraVariables.currentPosition at construction: (-10, 2.5, 0)
StartPosition == Vec(-1000, 250, 0)
\* the position FreeRoamMode.enter puts the camera at: (44, 21, -70)
FreeRoamPosition == Vec(4400, 2100, -7000)

\* the camera after Camera's constructor, which ends by toggling free roam on:
\* enter() saved the mode and the position of the camera instance, which
\* setInstance had copied from currentPosition.  targetPos, targetFov and fed
\* are history: the target position and field of view the last update
\* computed, and what it was fed; engaged is history: the mode and the smoothed
\* position at the moment free roam was engaged
PoseInit ==
    [currentPosition |-> StartPosition,
     instancePosition |-> FreeRoamPosition,
     savedPosition |-> StartPosition,
     currentFov |-> baseFov,
     currentAngle |-> -1571,
     targetAngle |-> -1571,
     rampHeightAnimStartTime |-> 0,
     now |-> ClockAtLoad,
     targetPos |-> <<>>,
     targetFov |-> <<>>,
     fed |-> <<>>,
     engaged |-> [mode |-> "default", pos |-> StartPosition]]

\* an angle brought into [-PI, PI] by whole turns
RECURSIVE WrapAngle(_)
WrapAngle(a) ==
    IF a > PiM THEN WrapAngle(a - 2 * PiM)
    ELSE IF a < -PiM THEN WrapAngle(a + 2 * PiM)
    ELSE a

\* Math.sin of an angle in [-PI/2, PI/2] (Taylor, three terms)
SinQuarter(x) ==
    x - DivT(DivT(x * x, 1000) * x, 6000)
      + DivT(DivT(DivT(x * x, 1000) * DivT(x * x, 1000), 1000) * x, 120000)
\* Math.sin of an angle in [-PI, PI]
SinHalf(x) ==
    IF 2 * x > PiM THEN SinQuarter(PiM - x)
    ELSE IF 2 * x < -PiM THEN SinQuarter(-PiM - x)
    ELSE SinQuarter(x)
\* Math.sin and Math.cos of any angle in mrad, in thousandths
Sin(x) == SinHalf(WrapAngle(x))
Cos(x) == SinHalf(WrapAngle(x + 1571))

\* Math.atan2(y, x) in mrad, all quadrants
Atan2(yy, xx) ==
    IF xx >= 0 THEN Atan2Mrad(yy, xx)
    ELSE IF yy >= 0 THEN PiM - Atan2Mrad(yy, -xx)
    ELSE -PiM - Atan2Mrad(yy, -xx)

\* THREE.Vector3.lerp: a + (b - a) t
Lerp3(a, b, t) ==
    Vec(a[1] + DivT((b[1] - a[1]) * t, 1000),
        a[2] + DivT((b[2] - a[2]) * t, 1000),
        a[3] + DivT((b[3] - a[3]) * t, 1000))

\* currentPosition.lerp(targetCameraPos, t); instance.position.copy(currentPosition)
MoveTo(ps, targetCameraPos, t) ==
    [ps EXCEPT !.currentPosition = Lerp3(@, targetCameraPos, t),
               !.instancePosition = Lerp3(ps.currentPosition, targetCameraPos, t),
               !.targetPos = <<targetCameraPos>>]

\* an update that computes no target position (speed <= 0.1 in ramp and flight)
NoMove(ps) == [ps EXCEPT !.targetPos = <<>>]

\* currentFov += (targetFov - currentFov) * fovLerpSpeed
FovTo(ps, targetFov) ==
    [ps EXCEPT !.currentFov = @ + DivT((targetFov - @) * fovLerpSpeed, 1000),
               !.targetFov = <<targetFov>>]

\* DefaultCameraMode.update: the angle behind the velocity, kept when the ball
\* is slower than 0.1
DefaultTargetAngle(ps, vel, speed) ==
    IF speed > moveThreshold THEN Atan2(vel[1], vel[3]) + PiM ELSE ps.targetAngle

\* DefaultCameraMode.update: currentAngle turns towards targetAngle
DefaultTurn(ps, angle) ==
    [ps EXCEPT !.targetAngle = angle,
               !.currentAngle = @ + DivT(WrapAngle(angle - @) * rotationLerpSpeed, 1000)]

\* DefaultCameraMode.update: the target position on the circle around the ball
DefaultAim(ps, pos) ==
    MoveTo(ps, Vec(pos[1] + DivT(Sin(ps.currentAngle) * offsetDistance, 1000),
                   pos[2] + offsetHeight,
                   pos[3] + DivT(Cos(ps.currentAngle) * offsetDistance, 1000)),
           positionLerpSpeed)

\* DefaultCameraMode.update
DefaultCameraUpdate(ps, pos, vel, speed) ==
    FovTo(DefaultAim(DefaultTurn(ps, DefaultTargetAngle(ps, vel, speed)), pos),
          minFov + DivT((maxFov - minFov) * Min(DivT(speed * 1000, maxSpeedForFov), 1000),
                        1000))

\* RampCameraMode.onEnter: the height animation restarts
RampOnEnter(ps) == [ps EXCEPT !.rampHeightAnimStartTime = ps.now]

\* RampCameraMode.update: progress of the animation, in thousandths
RampProgress(ps) ==
    Min(DivT((ps.now - ps.rampHeightAnimStartTime) * 1000, rampHeightAnimDuration), 1000)

\* RampCameraMode.update: currentRampHeight, eased out over the animation
RampHeight(progress) ==
    rampHeightStart
        + DivT((rampHeightEnd - rampHeightStart)
                   * (1000 - DivT(DivT((1000 - progress) * (1000 - progress), 1000)
                                      * (1000 - progress), 1000)),
               1000)

\* RampCameraMode.update: currentRampDistance
RampDistance(progress) ==
    rampStartDistance + DivT((rampTargetDistance - rampStartDistance) * progress, 1000)

\* RampCameraMode.update: speedRatio, in thousandths
RampSpeedRatio(speed) ==
    Clamp(DivT((speed - rampMinSpeed) * 1000, rampMaxSpeed - rampMinSpeed), 0, 1000)

\* RampCameraMode.update: the camera behind the ball along its velocity
RampAim(ps, pos, vel, speed, progress) ==
    IF speed > moveThreshold
    THEN MoveTo(ps, VAdd(VAdd(pos, Scale3(Normalize(vel), -RampDistance(progress), 1000)),
                         Vec(0, RampHeight(progress), 0)),
                rampBaseLerp + DivT(rampLerpGain * RampSpeedRatio(speed), 1000))
    ELSE NoMove(ps)

\* RampCameraMode.update
RampCameraUpdate(ps, pos, vel, speed) ==
    FovTo(RampAim(ps, pos, vel, speed, RampProgress(ps)),
          minRampFov + DivT((maxRampFov - minRampFov) * RampSpeedRatio(speed), 1000))

\* FlightCameraMode.update
FlightCameraUpdate(ps, pos, vel, speed) ==
    FovTo(IF speed > moveThreshold
          THEN MoveTo(ps, VAdd(VAdd(pos, Scale3(Normalize(vel), -flightCameraDistance, 1000)),
                               Vec(0, flightCameraHeight, 0)),
                      flightLerpSpeed)
          ELSE NoMove(ps),
          flightFov)

\* OceanCameraMode.update
OceanCameraUpdate(ps, pos) ==
    FovTo(MoveTo(ps, Vec(pos[1] - oceanCameraDistance, pos[2] + oceanCameraHeight,
                         pos[3] + oceanCameraDistance),
                 oceanLerpSpeed),
          oceanFov)

\* Camera.update: the switch on the mode
ModeDispatch(ps, mode, pos, vel, speed) ==
    IF mode = "ocean" THEN OceanCameraUpdate(ps, pos)
    ELSE IF mode = "flight" THEN FlightCameraUpdate(ps, pos, vel, speed)
    ELSE IF mode = "ramp" THEN RampCameraUpdate(ps, pos, vel, speed)
    ELSE DefaultCameraUpdate(ps, pos, vel, speed)

\* an update that calls onEnter whenever the mode is ramp; C29 tells
\* Camera.update from it
FollowEntersAlways(ps, mode, previousMode, in) ==
    [ModeDispatch(IF mode = "ramp" THEN RampOnEnter(ps) ELSE ps,
                  mode, in.pos, in.vel, Len3(in.vel))
     EXCEPT !.fed = <<in>>]

\* Camera.update with free roam off and the target's body present: onEnter on
\* the first update in ramp mode, then the update of the mode; in is what the
\* update is fed: the position of the player's group, the body's velocity, the
\* submerged and flying flags
FollowUpdate(ps, mode, previousMode, in) ==
    [ModeDispatch(IF mode = "ramp" /\ previousMode # "ramp" THEN RampOnEnter(ps) ELSE ps,
                  mode, in.pos, in.vel, Len3(in.vel))
     EXCEPT !.fed = <<in>>]

\* an update that takes the camera where it is for the smoothed position; C18
\* tells FreeRoamMode.update from it
FreeRoamFollows(ps) ==
    [ps EXCEPT !.currentPosition = ps.instancePosition,
               !.targetPos = <<>>, !.targetFov = <<>>, !.fed = <<>>]

\* FreeRoamMode.update: controls.update(); no pointer input is delivered, so
\* the orbit controls leave the camera instance where it is
FreeRoamUpdate(ps) == [ps EXCEPT !.targetPos = <<>>, !.targetFov = <<>>, !.fed = <<>>]

\* Camera.update returning before the mode is resolved (no target body)
NoUpdate(ps) == [ps EXCEPT !.targetPos = <<>>, !.targetFov = <<>>, !.fed = <<>>]

\* Date.now() moves on by the duration of the frame
ClockTick(ps, d) == [ps EXCEPT !.now = @ + d]

\* what the camera update of the current frame is fed
FedNow ==
    [pos |-> groupPos, vel |-> body.vel, ocean |-> IsInOceanResult(PlayerNow),
     flying |-> isFlying]

\* The pose part of Camera.update, for the step CameraUpdate
CameraPose ==
    pose' = IF cam.isFreeRoam THEN FreeRoamUpdate(ClockTick(pose, delta))
            ELSE IF ~playerMade \/ ~bodyMade THEN NoUpdate(ClockTick(pose, delta))
            ELSE FollowUpdate(ClockTick(pose, delta), cam'.mode, cam.mode, FedNow)

\* FreeRoamMode.enter and exit on the pose: enter saves the position of the
\* camera instance and moves the instance to the free-roam position; exit
\* copies the saved position into currentPosition
FreeRoamPose(c, ps) ==
    IF ~c.isFreeRoam
    THEN [ps EXCEPT !.savedPosition = ps.instancePosition,
                    !.instancePosition = FreeRoamPosition,
                    !.engaged = [mode |-> c.mode, pos |-> ps.currentPosition]]
    ELSE [ps EXCEPT !.currentPosition = ps.savedPosition]

\* The pose part of the 'r' key, for the step ToggleFreeRoam
TogglePose == pose' = FreeRoamPose(cam, pose)

----------------------------------------------------------------------------
(* The frame: Experience.update *)

\* What a physics step may leave the body with.  The engine is a black box:
\* a step takes the body to any sample of the set the specification draws from.
\* Samples on the open ground, in the air, beyond the camera's ramp threshold
\* and around the sea surface (at sea level, at the top of the hysteresis band,
\* above the band, below the surface):
LocoOutcomes ==
    { [pos |-> Vec(0, 100, 0),       vel |-> Vec(500, 0, 0),    ang |-> Vec(0, 0, -500), contact |-> TRUE],
      [pos |-> Vec(0, 300, 0),       vel |-> Vec(500, 300, 0),  ang |-> Vec(0, 0, -500), contact |-> FALSE],
      [pos |-> Vec(23700, 100, 0),   vel |-> Vec(500, 0, 0),    ang |-> Zero3,           contact |-> TRUE],
      [pos |-> Vec(0, -23000, 0),    vel |-> Vec(0, -300, 0),   ang |-> Vec(0, 0, -500), contact |-> FALSE],
      [pos |-> Vec(0, -22700, 0),    vel |-> Vec(0, 300, 0),    ang |-> Zero3,           contact |-> FALSE],
      [pos |-> Vec(0, -22690, 0),    vel |-> Vec(0, 300, 0),    ang |-> Zero3,           contact |-> FALSE],
      [pos |-> Vec(0, -23100, 0),    vel |-> Vec(100, -300, 0), ang |-> Zero3,           contact |-> TRUE] }

\* Samples around the gate plane x = 236: before it, on it and beyond it inside
\* the gate's bounds, beyond it outside the width, and beyond it outside the
\* height
GateOutcomes ==
    { [pos |-> Vec(23500, -20800, 0),    vel |-> Vec(2000, -1000, 0), ang |-> Zero3, contact |-> FALSE],
      [pos |-> Vec(23600, -20800, 0),    vel |-> Vec(2000, -1000, 100), ang |-> Zero3, contact |-> FALSE],
      [pos |-> Vec(23700, -20800, 0),    vel |-> Vec(1800, -1200, 0), ang |-> Zero3, contact |-> TRUE],
      [pos |-> Vec(23700, -20800, 2100), vel |-> Vec(500, 0, 0),      ang |-> Zero3, contact |-> FALSE],
      [pos |-> Vec(23700, -19200, 0),    vel |-> Vec(500, 0, 0),      ang |-> Zero3, contact |-> FALSE] }

\* the frame durations Time.delta takes (ms)
Deltas == {500}

\* the directions Camera.getForwardDirection returns (unit, thousandths)
Forwards == {Vec(1000, 0, 0), Vec(0, 0, 1000)}

\* the keys whose events are delivered
Keys == {"space"}

\* Physics.update: world.step() when the world exists
PhysicsUpdate(out, d) ==
    /\ pc = "idle"
    /\ pc' = "camera"
    /\ delta' = d
    /\ IF physicsReady /\ bodyMade
       THEN /\ body' = [body EXCEPT !.pos = out.pos, !.vel = out.vel, !.ang = out.ang]
            /\ contacts' = out.contact
       ELSE UNCHANGED <<body, contacts>>
    /\ tickLog' = IF physicsReady THEN <<"physics.update", "world.step">>
                  ELSE <<"physics.update">>
    /\ calls' = <<>>
    /\ UNCHANGED <<physicsReady, playerMade, bodyMade, keys, isFlying, isGrounded,
                   flightCtl, oceanActive, groupPos, playerRampMode,
                   playerBallisticMode, rampState, playerPreviousPos, cam, presses, gateHist, twin, pose, aero>>

\* Camera.update: free roam returns early; otherwise the mode is resolved from
\* target.isInOcean (which runs the hysteresis test), target.isFlying and
\* target.group.position.x
CameraUpdate ==
    /\ pc = "camera"
    /\ pc' = "player"
    /\ IF cam.isFreeRoam \/ ~playerMade \/ ~bodyMade
       THEN UNCHANGED <<cam, oceanActive>>
       ELSE /\ oceanActive' = IsInOceanState(PlayerNow).oceanActive
            /\ cam' = [cam EXCEPT !.mode = ResolveMode(IsInOceanResult(PlayerNow),
                                                       isFlying, groupPos[1])]
    /\ tickLog' = Append(tickLog, "camera.update")
    /\ calls' = <<>>
    /\ UNCHANGED <<delta, physicsReady, playerMade, bodyMade, body, contacts, keys,
                   isFlying, isGrounded, flightCtl, groupPos, playerRampMode,
                   playerBallisticMode, rampState, playerPreviousPos, presses, gateHist, twin, aero>>

\* World.update, first part: Player.update (nothing before the player exists,
\* or before its body exists)
PlayerUpdate(forward) ==
    /\ pc = "player"
    /\ pc' = "rampL"
    /\ IF playerMade /\ bodyMade
       THEN LET position == body.pos
                p == PlayerUpdateModes(PlayerNow, contacts, forward, delta)
            IN  /\ StorePlayer(p)
                \* PlayerPhysics.updateVisuals
                /\ groupPos' = position
                /\ calls' = p.log
                /\ tickLog' = tickLog \o p.log
       ELSE /\ UNCHANGED <<body, isFlying, isGrounded, flightCtl, oceanActive, keys,
                           groupPos, tickLog>>
            /\ calls' = <<>>
    /\ UNCHANGED <<delta, physicsReady, playerMade, bodyMade, contacts,
                   playerRampMode, playerBallisticMode, rampState,
                   playerPreviousPos, cam, presses, gateHist, twin, pose, aero>>

\* the RampL record of the current state, with an empty call log
RampNow ==
    [mode |-> playerRampMode, ballistic |-> playerBallisticMode, st |-> rampState,
     prev |-> playerPreviousPos, body |-> body, log |-> <<>>]

\* writes a RampL record back to the variables it is made of
StoreRamp(r) ==
    /\ playerRampMode' = r.mode
    /\ playerBallisticMode' = r.ballistic
    /\ rampState' = r.st
    /\ playerPreviousPos' = r.prev
    /\ body' = r.body
    /\ calls' = r.log
    /\ tickLog' = tickLog \o r.log

\* The history of the trajectory: the side of the gate plane the position read
\* by RampL.update lies on, the number of ticks in which the side differs from
\* the tick before, the kind of the first such tick (direction, and whether the
\* position is inside the gate's bounds) and the number of activations of
\* ramp mode (off before RampL.update, on after it)
SideOf(pos) == IF SignedDistance(pos) < 0 THEN "neg" ELSE "nonneg"
KindOf(side, pos) ==
    (IF side = "neg" THEN "fwd" ELSE "back")
        \o (IF WithinY(pos) /\ WithinWidth(pos) THEN "In" ELSE "Out")
Observe(h, pos, activated) ==
    [side |-> SideOf(pos),
     changes |-> IF h.side \notin {"none", SideOf(pos)}
                 THEN Min(h.changes + 1, MaxCount) ELSE h.changes,
     kind |-> IF h.side \notin {"none", SideOf(pos)} /\ h.changes = 0
              THEN KindOf(h.side, pos) ELSE h.kind,
     activations |-> IF activated THEN Min(h.activations + 1, MaxCount)
                     ELSE h.activations]

\* World.update, last part: RampL.update
RampLUpdateStep ==
    /\ pc = "rampL"
    /\ pc' = "render"
    /\ IF playerMade /\ bodyMade
       THEN /\ StoreRamp(RampLUpdate(RampNow, delta))
            /\ gateHist' = Observe(gateHist, body.pos,
                                   ~playerRampMode /\ playerRampMode')
       ELSE /\ UNCHANGED <<playerRampMode, playerBallisticMode, rampState,
                           playerPreviousPos, body, tickLog, gateHist>>
            /\ calls' = <<>>
    /\ UNCHANGED <<delta, physicsReady, playerMade, bodyMade, contacts, keys,
                   isFlying, isGrounded, flightCtl, oceanActive, groupPos, cam, presses,
                   twin, pose, aero>>

\* Renderer.update ends the frame; it touches none of the modelled state.  The
\* frame's call history is complete here and is dropped when the frame returns;
\* Time.delta is not read again before the next frame sets it.
RendererUpdate ==
    /\ pc = "render"
    /\ pc' = "idle"
    /\ delta' = 0
    /\ tickLog' = <<>>
    /\ calls' = <<>>
    /\ UNCHANGED <<physicsReady, playerMade, bodyMade, body, contacts, keys,
                   isFlying, isGrounded, flightCtl, oceanActive, groupPos,
                   playerRampMode, playerBallisticMode, rampState,
                   playerPreviousPos, cam, presses, gateHist, twin, pose, aero>>

\* The 'reset ramp mode' button of the debug panel (RampL.setDebug): clears both
\* flags, the progress, the arc-speed and the lateral velocity; the lateral
\* offset, the remembered position and the body are left alone
ResetRampMode ==
    /\ pc = "idle"
    /\ playerMade
    /\ playerRampMode' = FALSE
    /\ playerBallisticMode' = FALSE
    /\ rampState' = [rampState EXCEPT !.rampX = 0, !.vS = 0, !.vZ = 0]
    /\ calls' = <<>>
    /\ UNCHANGED <<pc, delta, physicsReady, playerMade, bodyMade, body, contacts,
                   keys, isFlying, isGrounded, flightCtl, oceanActive, groupPos,
                   playerPreviousPos, cam, tickLog, presses, gateHist, twin,
                   pose, aero>>

\* the asynchronous initialisation and the key releases
Events ==
    \/ PhysicsReady
    \/ ResourcesReady
    \/ \E k \in Keys : KeyUp(k)

\* the steps of a frame after the camera update
FrameSteps ==
    \/ \E forward \in Forwards : PlayerUpdate(forward)
    \/ RampLUpdateStep
    \/ RendererUpdate

Init ==
    /\ InitProgram
    /\ twin = NoTwin
    /\ pose = PoseInit
    /\ aero = NoAero

\* The locomotion and camera machine on the open ground and at sea; the
\* camera's mode is followed, its pose is not
Next ==
    \/ Events
    \/ \E k \in Keys : KeyDown(k) /\ UNCHANGED presses
    \/ ToggleFreeRoam /\ UNCHANGED pose
    \/ \E out \in LocoOutcomes, d \in Deltas : PhysicsUpdate(out, d)
    \/ CameraUpdate /\ UNCHANGED pose
    \/ FrameSteps

Spec == Init /\ [][Next]_vars

\* The gate detector and the ramp solver, with the camera left in free roam
NextGate ==
    \/ Events
    \/ \E k \in Keys : KeyDown(k) /\ presses < MaxPresses /\ presses' = presses + 1
    \/ \E out \in GateOutcomes, d \in Deltas : PhysicsUpdate(out, d)
    \/ CameraUpdate /\ UNCHANGED pose
    \/ FrameSteps

SpecGate == Init /\ [][NextGate]_vars

\* The gate detector and the ramp solver with the debug panel open: the reset
\* button may be pressed between any two frames
NextGateDebug ==
    \/ NextGate
    \/ ResetRampMode

SpecGateDebug == Init /\ [][NextGateDebug]_vars

----------------------------------------------------------------------------
(* The camera with its pose: a few frames of a ball that rolls across the   *)
(* camera's forward axis, rides beyond the ramp threshold and sinks, with    *)
(* the free-roam key and the flight key                                      *)

\* what a physics step may leave the body with
CamOutcomes ==
    { [pos |-> Vec(0, 100, 0),      vel |-> Vec(0, 0, 500),  ang |-> Zero3, contact |-> TRUE],
      [pos |-> Vec(2000, 100, 0),   vel |-> Vec(2500, 0, 0), ang |-> Zero3, contact |-> TRUE],
      [pos |-> Vec(0, -23000, 0),   vel |-> Vec(0, -300, 0), ang |-> Zero3, contact |-> FALSE] }

\* the frame durations Time.delta takes (ms): slow frames, so that the ramp
\* timer elapses within the frames followed
CamDeltas == {3000}

\* the direction Camera.getForwardDirection returns (unit, thousandths)
CamForwards == {Vec(1000, 0, 0)}

NextCam ==
    \/ Events
    \/ \E k \in Keys : KeyDown(k) /\ presses < MaxPresses /\ presses' = presses + 1
    \/ ToggleFreeRoam /\ TogglePose
    \/ \E out \in CamOutcomes, d \in CamDeltas :
          /\ pose.now < ClockAtLoad + MaxCamFrames * d
          /\ PhysicsUpdate(out, d)
    \/ CameraUpdate /\ CameraPose
    \/ \E forward \in CamForwards : PlayerUpdate(forward)
    \/ RampLUpdateStep
    \/ RendererUpdate

SpecCam == Init /\ [][NextCam]_vars

\* Samples for a ride of the ramp: before the gate, beyond it at speed, and
\* beyond it at rest over the lowest point of the curve (y'(x) = 0 at
\* x = 15.97)
RideOutcomes ==
    { [pos |-> Vec(23500, -20800, 0), vel |-> Vec(2000, -1000, 0), ang |-> Zero3, contact |-> FALSE],
      [pos |-> Vec(23700, -20800, 0), vel |-> Vec(1800, -1200, 0), ang |-> Zero3, contact |-> TRUE],
      [pos |-> Vec(24537, -20800, 0), vel |-> Zero3,               ang |-> Zero3, contact |-> FALSE] }

\* The frames of the animation loop with no key pressed and the camera left in
\* free roam
NextRide ==
    \/ PhysicsReady
    \/ ResourcesReady
    \/ \E out \in RideOutcomes, d \in Deltas : PhysicsUpdate(out, d)
    \/ CameraUpdate /\ UNCHANGED pose
    \/ \E forward \in CamForwards : PlayerUpdate(forward)
    \/ RampLUpdateStep
    \/ RendererUpdate

\* a step that takes the frame to its next position
FrameAdvances ==
    \/ pc = "idle" /\ pc' = "camera"
    \/ pc = "camera" /\ pc' = "player"
    \/ pc = "player" /\ pc' = "rampL"
    \/ pc = "rampL" /\ pc' = "render"
    \/ pc = "render" /\ pc' = "idle"

\* Time emits 'tick' on every animation frame and Experience.update runs its
\* four updates to the end: each update of a frame is followed by the next one,
\* and each frame by another
SpecRide == Init /\ [][NextRide]_vars /\ WF_pc(FrameAdvances)

\* Samples for the flight controls: a steep climb and a level roll, both clear
\* of the sea
FlightOutcomes ==
    { [pos |-> Vec(0, 300, 0), vel |-> Vec(0, 300, 0),  ang |-> Zero3, contact |-> FALSE],
      [pos |-> Vec(0, 100, 0), vel |-> Vec(500, 0, 0),  ang |-> Zero3, contact |-> TRUE] }

\* the keys of the flight controls
FlightKeys == KeyNames

\* The flight controls: every key of the player is delivered, the camera is
\* left in free roam
NextFlight ==
    \/ PhysicsReady
    \/ ResourcesReady
    \/ \E k \in FlightKeys : KeyUp(k)
    \/ \E k \in FlightKeys :
          KeyDown(k) /\ presses < MaxFlightPresses /\ presses' = presses + 1
    \/ \E out \in FlightOutcomes, d \in Deltas : PhysicsUpdate(out, d)
    \/ CameraUpdate /\ UNCHANGED pose
    \/ \E forward \in CamForwards : PlayerUpdate(forward)
    \/ RampLUpdateStep
    \/ RendererUpdate

SpecFlight == Init /\ [][NextFlight]_vars

----------------------------------------------------------------------------
(* The ramp solver on its own: RampL.stepRampConstraint run twice from one  *)
(* state with the same tick durations, while the rest of the program (the   *)
(* keyboard, the asynchronous initialisation) goes on between the ticks     *)

\* the states the two runs start from: an entry at the gate, an entry at the
\* start of the ramp with a lateral drift, a slow ball that rolls back to the
\* start of the ramp, and a fast ball close to the end;
\* the state RampL.enterRampMode writes for a body at pos with velocity vel
EntryState(pos, vel) ==
    enterRampMode([RampNow EXCEPT !.body = [CreatedBody EXCEPT !.pos = pos,
                                                               !.vel = vel]]).st

\* further starts: a body at rest at the start of the ramp, a ball that rolls
\* back onto the start of the ramp, and the states written by an entry short of
\* the ramp's origin (against the curve) and by one beyond the ramp's end
SolverStarts ==
    { [rampX |-> 660,  vS |-> 2236, lateralZ |-> 0,  vZ |-> 0],
      [rampX |-> 0,    vS |-> 2200, lateralZ |-> 20, vZ |-> 100],
      [rampX |-> 100,  vS |-> -300, lateralZ |-> 0,  vZ |-> -50],
      [rampX |-> rampL_L - 500, vS |-> 2500, lateralZ |-> -30, vZ |-> 0],
      [rampX |-> 0,    vS |-> 0,    lateralZ |-> 0,  vZ |-> 0],
      [rampX |-> 122,  vS |-> -800, lateralZ |-> 0,  vZ |-> 0],
      EntryState(Vec(rampOriginX - 900, -20800, 0), Vec(-600, 0, 0)),
      EntryState(Vec(rampOriginX + rampL_L + 500, -20800, 0), Vec(2000, 500, 0)) }

\* the tick durations the runs are stepped with (ms)
SolverDeltas == {16, 250, 500}

InitSolver ==
    /\ InitProgram
    /\ \E s \in SolverStarts : twin = [NoTwin EXCEPT !.start = s]
    /\ pose = PoseInit
    /\ aero = NoAero

\* the state a run is in after the results rs
RunState(rs) == IF rs = <<>> THEN twin.start ELSE rs[Len(rs)].state
RunExited(rs) == rs # <<>> /\ rs[Len(rs)].exitedRamp

\* the first run takes a tick of duration d
RunA(d) ==
    /\ Len(twin.dts) < MaxSolverTicks
    /\ ~RunExited(twin.a)
    /\ twin' = [twin EXCEPT !.dts = Append(@, d),
                            !.a = Append(@, stepRampConstraint(RunState(twin.a), d))]
    /\ UNCHANGED <<pc, delta, physicsReady, playerMade, bodyMade, body, contacts,
                   keys, isFlying, isGrounded, flightCtl, oceanActive, groupPos,
                   playerRampMode, playerBallisticMode, rampState,
                   playerPreviousPos, cam, tickLog, calls, presses, gateHist, pose, aero>>

\* the second run takes its next tick, of the duration the first run took
RunB ==
    /\ Len(twin.b) < Len(twin.dts)
    /\ ~RunExited(twin.b)
    /\ twin' = [twin EXCEPT !.b = Append(@, stepRampConstraint(RunState(twin.b),
                                                     twin.dts[Len(twin.b) + 1]))]
    /\ UNCHANGED <<pc, delta, physicsReady, playerMade, bodyMade, body, contacts,
                   keys, isFlying, isGrounded, flightCtl, oceanActive, groupPos,
                   playerRampMode, playerBallisticMode, rampState,
                   playerPreviousPos, cam, tickLog, calls, presses, gateHist, pose, aero>>

NextSolver ==
    \/ Events
    \/ \E k \in Keys : KeyDown(k) /\ presses < MaxPresses /\ presses' = presses + 1
    \/ \E d \in SolverDeltas : RunA(d)
    \/ RunB

SpecSolver == InitSolver /\ [][NextSolver]_vars

----------------------------------------------------------------------------
(* The lift coefficient on its own: FlightMode.applyPhysics computes CL for *)
(* an angle of attack, which it has clamped to [-maxAlpha, maxAlpha]        *)

\* the angles of attack (mrad): level, the linear region, one step below the
\* stall angle, the stall angle, one step above it, the clamp, and their
\* negatives
Alphas ==
    {0, 100, alphaStall - 1, alphaStall, alphaStall + 1, maxAlpha,
     -100, 1 - alphaStall, -alphaStall, -alphaStall - 1, -maxAlpha}

InitAero ==
    /\ InitProgram
    /\ twin = NoTwin
    /\ pose = PoseInit
    /\ \E a \in Alphas : aero = [NoAero EXCEPT !.alpha = a]

\* FlightMode.applyPhysics: the lift coefficient of the angle of attack
LiftStep ==
    /\ aero.CL = <<>>
    /\ aero' = [aero EXCEPT !.CL = <<LiftCoefficient(aero.alpha)>>]
    /\ UNCHANGED <<pc, delta, physicsReady, playerMade, bodyMade, body, contacts,
                   keys, isFlying, isGrounded, flightCtl, oceanActive, groupPos,
                   playerRampMode, playerBallisticMode, rampState,
                   playerPreviousPos, cam, tickLog, calls, presses, gateHist,
                   twin, pose>>

NextAero ==
    \/ Events
    \/ \E k \in Keys : KeyDown(k) /\ presses < MaxPresses /\ presses' = presses + 1
    \/ LiftStep

SpecAero == InitAero /\ [][NextAero]_vars

----------------------------------------------------------------------------
(* Properties *)

Range(log) == {log[i] : i \in DOMAIN log}
Count(log, e) == Cardinality({i \in DOMAIN log : log[i] = e})

\* the steps of a frame that run Player.update and RampL.update with the body
PlayerTick == pc = "player" /\ pc' = "rampL" /\ playerMade /\ bodyMade
RampTick == pc = "rampL" /\ pc' = "render" /\ playerMade /\ bodyMade

DispatchCalls ==
    {"oceanMode.update", "flightMode.update", "airMode.update", "groundMode.update"}
IsDispatchCall(e) == e \in DispatchCalls

\* the submerged test at height posY for a flag that stood at active
SubmergedAt(posY, active) ==
    IF posY <= seaLevel THEN TRUE
    ELSE IF posY > seaLevel + exitThreshold THEN FALSE
    ELSE active

\* C1: every call of Player.update with the body present dispatches exactly
\* one mode controller, and it is the first match of: submerged, flying flag
\* set, not grounded (by this tick's contacts), grounded.
C1_ExactlyOneController ==
    [][PlayerTick =>
         SelectSeq(calls', IsDispatchCall)
           = << IF SubmergedAt(body.pos[2], oceanActive) THEN "oceanMode.update"
                ELSE IF isFlying THEN "flightMode.update"
                ELSE IF ~contacts THEN "airMode.update"
                ELSE "groundMode.update" >>]_vars

\* C1's case: a tick that found the ball submerged and flying at once has
\* dispatched the ocean controller (which left flight)
C1_SubmergedWhileFlying ==
    /\ pc = "rampL" /\ bodyMade
    /\ SelectSeq(calls, IsDispatchCall) = <<"oceanMode.update">>
    /\ "setGravityScale(1)" \in Range(calls)

\* C2: the submerged flag is set only by a position at or below sea level and
\* cleared only by a position above sea level plus the band; at any position
\* in between it keeps its value.
C2_SubmergedHysteresis ==
    [][/\ (oceanActive /\ ~oceanActive') => body.pos[2] > seaLevel + exitThreshold
       /\ (~oceanActive /\ oceanActive') => body.pos[2] <= seaLevel]_vars

\* C2's case: after the test of a tick, the flag is still set at a position
\* above sea level and inside the band
C2_HeldInsideBand ==
    /\ pc = "rampL" /\ bodyMade /\ oceanActive
    /\ "isInOcean" \in Range(calls)
    /\ body.pos[2] > seaLevel
    /\ body.pos[2] <= seaLevel + exitThreshold

\* C3: every step that turns the flying flag on performs the entry side
\* effects exactly once, every step that turns it off performs the exit side
\* effects exactly once, and a step that leaves the flag alone performs none.
C3_EffectsOncePerTransition ==
    [][/\ (~isFlying /\ isFlying') =>
            /\ Count(calls', "setGravityScale(0)") = 1
            /\ Count(calls', "snapshotTargets") = 1
       /\ (isFlying /\ ~isFlying') =>
            /\ Count(calls', "setGravityScale(1)") = 1
            /\ Count(calls', "zeroTargets") = 1
       /\ (isFlying' = isFlying) =>
            Range(calls') \cap {"setGravityScale(0)", "snapshotTargets",
                                "setGravityScale(1)", "zeroTargets"} = {}]_vars

\* C4: whenever the body exists, its gravity scale is 0 exactly when the
\* flying flag is set, and 1 otherwise.
C4_GravityScaleFollowsFlying ==
    bodyMade => body.gravityScale = (IF isFlying THEN 0 ELSE 1)

\* the position of the first occurrence of e in log (0 when there is none)
FirstIndex(log, e) ==
    IF e \in Range(log)
    THEN CHOOSE i \in DOMAIN log : log[i] = e /\ \A j \in 1..(i - 1) : log[j] # e
    ELSE 0

\* C5: a tick classified as submerged while the flying flag is set runs the
\* flight-exit side effects before the water drag and buoyancy, and every
\* submerged tick ends (after RampL.update too) with the flying flag off and
\* the gravity scale at 1.
C5_SubmergedLeavesFlight ==
    [][/\ (PlayerTick /\ "oceanMode.update" \in Range(calls')) =>
            /\ ~isFlying' /\ body'.gravityScale = 1
            /\ isFlying =>
                 /\ FirstIndex(calls', "setGravityScale(1)") > 0
                 /\ FirstIndex(calls', "zeroTargets") > 0
                 /\ FirstIndex(calls', "setGravityScale(1)")
                      < FirstIndex(calls', "setLinvel")
                 /\ FirstIndex(calls', "zeroTargets")
                      < FirstIndex(calls', "setLinvel")
                 /\ \A i \in DOMAIN calls' :
                       calls'[i] \in {"applyImpulse", "setAngvel"}
                         => i > FirstIndex(calls', "setLinvel")
       /\ (RampTick /\ "oceanMode.update" \in Range(tickLog)) =>
            ~isFlying' /\ body'.gravityScale = 1]_vars

\* C5's case: the frame of a ball that flew into the water is complete: the
\* ocean controller ran, flight was left, the drag was applied
C5_FlewIntoWater ==
    /\ pc = "render" /\ bodyMade
    /\ "oceanMode.update" \in Range(tickLog)
    /\ "zeroTargets" \in Range(tickLog)
    /\ "setLinvel" \in Range(tickLog)
    /\ ~isFlying /\ body.gravityScale = 1

\* the calls by which a mode controller changes the body's velocity
BodyWrites == {"applyImpulse", "applyTorqueImpulse", "setLinvel", "setAngvel"}

\* C6: while ramp mode is active the mode controllers apply no impulse, torque
\* impulse or velocity change, and no frame in which the ramp solver writes
\* the body has such a call of a mode controller before it.
C6_RampExcludesControllers ==
    [][/\ (PlayerTick /\ playerRampMode) => Range(calls') \cap BodyWrites = {}
       /\ (RampTick /\ "stepRampConstraint" \in Range(calls')) =>
            Range(tickLog) \cap BodyWrites = {}]_vars

\* the place of a call in the order C7 states (0: not one of its steps):
\* physics step, contact refresh, mode classification, ramp override, gate
\* detection, flight forces, camera update
Rank(e) ==
    CASE e = "world.step" -> 1
      [] e = "checkGrounded" -> 2
      [] e = "isInOcean" -> 3
      [] e = "stepRampConstraint" -> 4
      [] e = "gateDetection" -> 5
      [] e = "flightMode.update" -> 6
      [] e = "camera.update" -> 7
      [] OTHER -> 0

\* C7: the steps of every frame run in the order physics step, contact
\* refresh, mode classification, ramp override, gate detection, flight forces,
\* camera update.
C7_TickOrder ==
    pc = "render" =>
        \A i, j \in DOMAIN tickLog :
            (i < j /\ Rank(tickLog[i]) > 0 /\ Rank(tickLog[j]) > 0)
                => Rank(tickLog[i]) <= Rank(tickLog[j])

\* C8: at the end of every frame with free roam off and the body present, the
\* camera's mode is what the priority rule gives for the submerged flag, the
\* flying flag and the forward coordinate of the player's group as they stand
\* then.
C8_CameraModeCurrent ==
    (pc = "render" /\ ~cam.isFreeRoam /\ playerMade /\ bodyMade) =>
        cam.mode = (IF oceanActive THEN "ocean"
                    ELSE IF isFlying THEN "flight"
                    ELSE IF groupPos[1] > rampThresholdX THEN "ramp"
                    ELSE "default")

\* C9: a call of RampL.update with ramp mode inactive that finds the signed
\* distance of the remembered position negative and that of the current
\* position non-negative, the current position inside the gate's height and
\* width, activates ramp mode; one that finds them positive and non-positive
\* does not.
C9_ForwardCrossingActivates ==
    [][(RampTick /\ ~playerRampMode /\ playerPreviousPos # <<>>) =>
         /\ ( /\ SignedDistance(playerPreviousPos[1]) < 0
              /\ SignedDistance(body.pos) >= 0
              /\ body.pos[2] >= gateCenterY - gateHeight \div 2
              /\ body.pos[2] <= gateCenterY + gateHeight \div 2
              /\ Abs(body.pos[3] - gateCenterZ) <= gateWidth \div 2 )
            => playerRampMode'
         /\ ( /\ SignedDistance(playerPreviousPos[1]) > 0
              /\ SignedDistance(body.pos) <= 0 )
            => ~playerRampMode']_vars

\* C9's case: a crossing that ends on the gate plane itself (distance 0) has
\* activated ramp mode
C9_EnteredOnThePlane ==
    /\ pc = "render" /\ bodyMade /\ playerRampMode
    /\ "enterRampMode" \in Range(calls)
    /\ playerPreviousPos # <<>>
    /\ SignedDistance(playerPreviousPos[1]) = 0

\* C10: as long as the trajectory has changed side of the gate plane exactly
\* once, ramp mode has been activated exactly once if that crossing was
\* forward and inside the bounds, and never if it was outside the bounds.
C10_OneCrossingOneActivation ==
    gateHist.changes = 1 =>
        /\ gateHist.kind = "fwdIn" => gateHist.activations = 1
        /\ gateHist.kind \in {"fwdOut", "backOut"} => gateHist.activations = 0

\* C10's case: a single forward crossing inside the bounds, and the ramp has
\* been ridden to its end since
C10_RodeTheRampOnce ==
    /\ gateHist.changes = 1 /\ gateHist.kind = "fwdIn"
    /\ gateHist.activations = 1
    /\ ~playerRampMode /\ playerBallisticMode

\* C11: a call of RampL.update that starts with ramp mode inactive ends with
\* the gate memory equal to the position it read, whether or not it entered
\* the ramp; one that starts with ramp mode active leaves the memory as it was
\* and does not enter the ramp.
C11_GateMemory ==
    [][/\ (RampTick /\ ~playerRampMode) => playerPreviousPos' = <<body.pos>>
       /\ (RampTick /\ playerRampMode) =>
            /\ playerPreviousPos' = playerPreviousPos
            /\ "enterRampMode" \notin Range(calls')]_vars

\* C11's case: the call that entered the ramp remembered the position it read,
\* beyond the plane, and not the position it snapped the ball to
C11_MemoryAfterEntry ==
    /\ pc = "render" /\ bodyMade
    /\ "enterRampMode" \in Range(calls)
    /\ playerPreviousPos # <<>>
    /\ SignedDistance(playerPreviousPos[1]) > 0
    /\ playerPreviousPos[1] # body.pos

\* C12: between the end of RampL.update and the next physics step, while ramp
\* mode is active, the body's translation is the curve point at the progress
\* of the ramp state offset by the radius along the normal (and by the lateral
\* offset), and its linear velocity is the arc-speed along the tangent plus the
\* lateral velocity.
C12_RampOwnsBody ==
    (pc \in {"render", "idle"} /\ bodyMade /\ playerRampMode) =>
        /\ body.pos = Vec(rampOriginX + rampState.rampX
                            + DivT(getNormal(rampState.rampX).nx * radius, 1000),
                          rampOriginY + y(rampState.rampX)
                            + DivT(getNormal(rampState.rampX).ny * radius, 1000),
                          rampOriginZ + rampState.lateralZ)
        /\ body.vel = Vec(DivT(rampState.vS * Tangent(rampState.rampX).tx, 1000),
                          DivT(rampState.vS * Tangent(rampState.rampX).ty, 1000),
                          rampState.vZ)

\* C12's case: a frame in ramp mode in which the flight controller applied its
\* impulse before the solver ran
C12_SolverAfterFlight ==
    /\ pc = "render" /\ bodyMade /\ playerRampMode
    /\ "applyImpulse" \in Range(tickLog)
    /\ "stepRampConstraint" \in Range(calls)

\* C13: ramp mode is left only by a call of RampL.update whose solver step
\* brings the progress to L; that call sets the ballistic flag and leaves the
\* body with the tangent velocity at L; every solver step that brings the
\* progress to L leaves ramp mode; and a call that starts and ends with ramp
\* mode inactive does not write the body.
C13_ExitAtL ==
    [][/\ (playerRampMode /\ ~playerRampMode') =>
            /\ RampTick
            /\ rampState'.rampX = rampL_L
            /\ playerBallisticMode'
            /\ "exitRampMode" \in Range(calls')
            /\ body'.vel = Vec(DivT(rampState'.vS * Tangent(rampL_L).tx, 1000),
                               DivT(rampState'.vS * Tangent(rampL_L).ty, 1000),
                               rampState'.vZ)
       /\ (RampTick /\ playerRampMode /\ rampState'.rampX >= rampL_L) =>
            ~playerRampMode'
       /\ (RampTick /\ ~playerRampMode /\ ~playerRampMode') =>
            /\ body' = body
            /\ Range(calls') \cap {"setTranslation", "setLinvel"} = {}]_vars

\* C13's case: the frame in which the ramp was left
C13_LeftTheRamp ==
    /\ pc = "render" /\ bodyMade
    /\ "exitRampMode" \in Range(calls)
    /\ ~playerRampMode /\ playerBallisticMode
    /\ rampState.rampX = rampL_L

\* C14: on entry the progress is the position relative to the ramp origin
\* clamped to [0, L], the arc-speed is the dot product of the velocity before
\* the entry with the unit tangent there, the velocity written to the body has
\* the same tangential component (up to rounding), and the lateral position
\* and velocity are taken over unchanged.
C14_EntryArcSpeed ==
    [][(RampTick /\ ~playerRampMode /\ playerRampMode') =>
         /\ rampState'.rampX = Max(0, Min(body.pos[1] - rampOriginX, rampL_L))
         /\ rampState'.vS = DivT(body.vel[1] * Tangent(rampState'.rampX).tx
                                 + body.vel[2] * Tangent(rampState'.rampX).ty, 1000)
         /\ Abs(DivT(body'.vel[1] * Tangent(rampState'.rampX).tx
                     + body'.vel[2] * Tangent(rampState'.rampX).ty, 1000)
                - rampState'.vS) <= RoundingTol
         /\ rampState'.lateralZ = body.pos[3] - rampOriginZ
         /\ rampState'.vZ = body.vel[3]
         /\ body'.pos[3] = body.pos[3]
         /\ body'.vel[3] = body.vel[3]]_vars

\* C14's case: an entry with a lateral velocity
C14_EnteredWithLateralVelocity ==
    /\ pc = "render" /\ bodyMade /\ playerRampMode
    /\ "enterRampMode" \in Range(calls)
    /\ rampState.vZ # 0 /\ rampState.vS > 0

C16_ModeByPriority ==
    [][(/\ pc = "camera" /\ pc' = "player"
        /\ ~cam.isFreeRoam /\ playerMade /\ bodyMade)
       => cam'.mode = (IF SubmergedAt(body.pos[2], oceanActive) THEN "ocean"
                       ELSE IF isFlying THEN "flight"
                       ELSE IF groupPos[1] > rampThresholdX THEN "ramp"
                       ELSE "default")]_vars

\* C16 witness: a camera update has just put the camera in ocean mode while the
\* flying flag is set and the group is beyond the ramp threshold
C16_OceanOverFlightAndRamp ==
    /\ pc = "player"
    /\ ~cam.isFreeRoam /\ playerMade /\ bodyMade
    /\ cam.mode = "ocean"
    /\ isFlying
    /\ groupPos[1] > rampThresholdX

\* C17: of two consecutive camera updates in a follow mode that are fed the
\* same position of the player's group, the same velocity and the same
\* submerged and flying flags, both with the ramp timer elapsed, the second
\* computes the target camera position and the target field of view the first
\* computed
C17_SameFedSameTarget ==
    [][(/\ pc = "camera" /\ pc' = "player"
        /\ ~cam.isFreeRoam /\ playerMade /\ bodyMade
        /\ pose.fed = <<FedNow>>
        /\ pose.now - pose.rampHeightAnimStartTime >= rampHeightAnimDuration
        /\ pose'.now - pose'.rampHeightAnimStartTime >= rampHeightAnimDuration)
       => /\ pose'.targetPos = pose.targetPos
          /\ pose'.targetFov = pose.targetFov]_vars

\* C18: no step taken while free roam is engaged, a camera update included,
\* changes the camera's mode, its smoothed position, its smoothed field of view
\* or the start time of the ramp animation
C18_FreeRoamFreezes ==
    [][(cam.isFreeRoam /\ cam'.isFreeRoam)
       => /\ cam'.mode = cam.mode
          /\ pose'.currentPosition = pose.currentPosition
          /\ pose'.currentFov = pose.currentFov
          /\ pose'.rampHeightAnimStartTime = pose.rampHeightAnimStartTime]_vars

\* C18 witness: a camera update has just run in free roam, after the camera
\* had followed the ball, with the ball's group beyond the ramp threshold and
\* the mode still default: out of free roam the update would have entered ramp
\* mode and restarted the timer
C18_UpdateInFreeRoam ==
    /\ pc = "player"
    /\ cam.isFreeRoam /\ playerMade /\ bodyMade
    /\ pose.now > ClockAtLoad
    /\ pose.currentPosition # StartPosition
    /\ cam.mode = "default"
    /\ groupPos[1] > rampThresholdX

\* C19: leaving free roam puts the camera's mode and its smoothed position
\* back to what they were at the moment free roam was engaged
C19_ToggleRestores ==
    [][(cam.isFreeRoam /\ ~cam'.isFreeRoam)
       => /\ cam'.mode = pose.engaged.mode
          /\ pose'.currentPosition = pose.engaged.pos]_vars

\* C20: while the player's body is absent, no tick and no key event (the space
\* bar included) changes the flying flag, the grounded flag, the submerged flag,
\* the ramp flags or the gate memory
C20_NoBodyNoChange ==
    [][(~bodyMade /\ ~bodyMade')
       => UNCHANGED <<isFlying, isGrounded, oceanActive, playerRampMode,
                      playerBallisticMode, playerPreviousPos>>]_vars

\* C21: a key-down event of the space bar delivered while the space bar is
\* already recorded as held does not flip the flying flag (between two frames
\* the only steps are events; one that leaves the space bar held is a repeated
\* key-down of it, the free-roam key, or the asynchronous initialisation)
C21_FlipOnEdgeOnly ==
    [][(/\ pc = "idle" /\ pc' = "idle"
        /\ keys["space"] /\ keys'["space"])
       => isFlying' = isFlying]_vars

\* C22: while the player is submerged, no event delivered between two frames
\* changes the flying flag, the body's gravity scale, its linear velocity or
\* its angular velocity
C22_SubmergedIgnoresKeys ==
    [][(/\ pc = "idle" /\ pc' = "idle"
        /\ bodyMade /\ oceanActive)
       => /\ isFlying' = isFlying
          /\ body'.gravityScale = body.gravityScale
          /\ body'.vel = body.vel
          /\ body'.ang = body.ang]_vars

\* C23: the tick in which ramp mode exits resets the gate's memory and the
\* solver's progress and arc-speed to their values after construction
C23_ExitResets ==
    [][(playerRampMode /\ ~playerRampMode')
       => /\ playerPreviousPos' = <<>>
          /\ rampState'.rampX = 0
          /\ rampState'.vS = 0]_vars

\* C28: the tick that enters ramp mode sets each of the four fields of the ramp
\* state from the body's position and velocity as the tick finds them, whatever
\* the ramp state was before
C28_EntryOverwritesState ==
    [][(RampTick /\ ~playerRampMode /\ playerRampMode')
       => rampState' =
            [rampX |-> Clamp(body.pos[1] - rampOriginX, 0, rampL_L),
             vS |-> DivT(body.vel[1] * Tangent(Clamp(body.pos[1] - rampOriginX,
                                                      0, rampL_L)).tx
                         + body.vel[2] * Tangent(Clamp(body.pos[1] - rampOriginX,
                                                        0, rampL_L)).ty, 1000),
             lateralZ |-> body.pos[3] - rampOriginZ,
             vZ |-> body.vel[3]]]_vars

\* C28 witness: ramp mode has just been entered for the second time, and the
\* ramp state the entry found, left by the first traversal, differed from the
\* one it wrote in progress, arc-speed, lateral offset and lateral velocity
C28_SecondEntry ==
    /\ pc = "render"
    /\ "enterRampMode" \in Range(calls)
    /\ gateHist.activations = 2
    /\ rampState.rampX < rampL_L

\* C29: a camera update sets the start time of the ramp animation to the time
\* of the update if free roam is off, the target's body is present, the mode it
\* resolves is ramp and the mode it found was not ramp; every other camera
\* update leaves the start time as it was
C29_OneShotOnEntry ==
    [][(pc = "camera" /\ pc' = "player")
       => pose'.rampHeightAnimStartTime =
            (IF /\ ~cam.isFreeRoam /\ playerMade /\ bodyMade
                /\ cam'.mode = "ramp" /\ cam.mode # "ramp"
             THEN pose'.now
             ELSE pose.rampHeightAnimStartTime)]_vars

\* C29 witness: a camera update has just run in ramp mode without restarting
\* the animation, which an earlier update had started
C29_StayedInRampMode ==
    /\ pc = "player"
    /\ ~cam.isFreeRoam /\ playerMade /\ bodyMade
    /\ cam.mode = "ramp"
    /\ pose.fed # <<>>
    /\ pose.rampHeightAnimStartTime > 0
    /\ pose.rampHeightAnimStartTime < pose.now

\* C30: a camera update leaves the flying flag, the grounded flag and the
\* submerged flag of the hysteresis test as it found them
C30_CameraReadsOnly ==
    [][(pc = "camera" /\ pc' = "player")
       => /\ isFlying' = isFlying
          /\ isGrounded' = isGrounded
          /\ oceanActive' = oceanActive]_vars

\* C25: at progress 0 the slope is -1 and the tangential acceleration is
\* g / sqrt(2) > 0; a body at rest there has, after one tick, a positive
\* arc-speed and a progress that is not below 0
C25_RestAccelerates ==
    /\ dy(0) = -1000
    /\ DivT(-gravity * dy(0), Denom(dy(0))) = DivT(gravity * 1000, Sqrt(2000000))
    /\ DivT(-gravity * dy(0), Denom(dy(0))) > 0
    /\ (twin.start = NoTwin.start /\ twin.a # <<>>)
          => /\ twin.a[1].state.vS > 0
             /\ twin.a[1].state.rampX >= 0

\* C25 witness: the body at rest at progress 0 has taken a tick and moved on
C25_RolledOff ==
    /\ twin.start = NoTwin.start
    /\ twin.a # <<>>
    /\ twin.a[1].state.rampX > 0

\* C26: the progress an entry writes and the progress after every ramp step lie
\* in [0, L]
C26_ProgressInRange ==
    /\ twin.start.rampX \in 0..rampL_L
    /\ \A i \in 1..Len(twin.a) : twin.a[i].state.rampX \in 0..rampL_L
    /\ \A i \in 1..Len(twin.b) : twin.b[i].state.rampX \in 0..rampL_L

\* C26 witness: a run that entered with a negative arc-speed has been held at
\* progress 0 by a step
C26_HeldAtStart ==
    /\ twin.start.vS < 0
    /\ twin.a # <<>>
    /\ twin.a[Len(twin.a)].state.rampX = 0

\* C27: every ramp step that ends at progress 0 ends with a non-negative
\* arc-speed
C27_ReflectedAtStart ==
    \A i \in 1..Len(twin.a) :
        twin.a[i].state.rampX = 0 => twin.a[i].state.vS >= 0

\* C24: the lift coefficient one step below the stall angle, at the stall angle
\* and one step above it is the peak value 2 PI alphaStall, clamped to
\* [-1.2, 1.2]
C24_LiftContinuousAtStall ==
    (aero.CL # <<>> /\ aero.alpha \in {alphaStall - 1, alphaStall, alphaStall + 1})
        => aero.CL[1] = Clamp(DivT(TwoPiM * alphaStall, 1000), -CLMaxM, CLMaxM)

----------------------------------------------------------------------------
(* Flight attitude targets *)

\* C31: while the flying flag is set, the pitch target lies within
\* [-maxPitch, maxPitch] and the roll target within [-maxRoll, maxRoll],
\* whatever velocity the body had when flight was entered
C31_TargetsWithinLimits ==
    isFlying => /\ flightCtl.targetPitch >= -maxPitch
                /\ flightCtl.targetPitch <= maxPitch
                /\ flightCtl.targetRoll >= -maxRoll
                /\ flightCtl.targetRoll <= maxRoll


\* a tick of Player.update in which the flight controller ran
FlightTick == PlayerTick /\ "flightMode.update" \in Range(calls')

\* C32: in a flight tick the pitch target (roll target) is unchanged when
\* neither w nor s (neither a nor d) is held, and otherwise moves by at most
\* pitchSpeed (rollSpeed) in the held direction: down for w, up for s, left for
\* a, right for d
C32_TargetStepBounded ==
    [][FlightTick =>
         /\ flightCtl'.targetPitch - flightCtl.targetPitch
              \in (IF keys["w"] THEN -pitchSpeed .. 0
                   ELSE IF keys["s"] THEN 0 .. pitchSpeed ELSE {0})
         /\ flightCtl'.targetRoll - flightCtl.targetRoll
              \in (IF keys["a"] THEN -rollSpeed .. 0
                   ELSE IF keys["d"] THEN 0 .. rollSpeed ELSE {0})]_vars


----------------------------------------------------------------------------
(* The grounded flag *)

\* C33: after each contact refresh with the collider present, the grounded flag
\* is true exactly when a contact pair with the player's collider was reported
\* in that tick, whatever the flag was before
C33_GroundedIsThisTicksContact ==
    [][(PlayerTick /\ "checkGrounded" \in Range(calls'))
          => isGrounded' = contacts]_vars

\* a refresh in a tick with a contact pair has set the flag, and the ground
\* controller has run on it
C33_RefreshGrounded ==
    /\ pc = "rampL"
    /\ "checkGrounded" \in Range(calls)
    /\ "groundMode.update" \in Range(calls)
    /\ contacts
    /\ isGrounded


----------------------------------------------------------------------------
(* The flags of RampL *)

\* C34: the ramp-mode flag and the ballistic-mode flag are never both set,
\* after any sequence of gate crossings, ramp steps, ramp exits and manual
\* resets
C34_RampAndBallisticExclusive == ~(playerRampMode /\ playerBallisticMode)

\* ramp mode has been entered again after an exit had set the ballistic flag
C34_ReenteredAfterExit ==
    /\ playerRampMode
    /\ ~playerBallisticMode
    /\ gateHist.activations >= 2


----------------------------------------------------------------------------
(* Re-arming of the gate after a traversal *)

\* the gate memory holds a position with negative signed distance to the plane
MemoryBehindGate(prev) == prev # <<>> /\ SignedDistance(prev[1]) < 0

\* a tick of RampL.update that runs the gate detection
DetectionTick == RampTick /\ ~playerRampMode

\* C35: after a ramp exit, ramp mode cannot be re-activated on the first
\* gate-detection tick that follows; a later detection tick must first record a
\* position with negative signed distance.  In steps: the tick that exits
\* leaves the memory on the non-negative side; the memory comes to hold a
\* position behind the gate only by a detection tick that reads such a
\* position; and a tick activates ramp mode only if it is a detection tick that
\* finds the memory behind the gate
C35_RearmBeforeReentry ==
    [][/\ (RampTick /\ playerRampMode /\ ~playerRampMode')
            => ~MemoryBehindGate(playerPreviousPos')
       /\ (~MemoryBehindGate(playerPreviousPos)
             /\ MemoryBehindGate(playerPreviousPos'))
            => (DetectionTick /\ SignedDistance(body.pos) < 0
                /\ playerPreviousPos' = <<body.pos>>)
       /\ (~playerRampMode /\ playerRampMode')
            => (DetectionTick /\ MemoryBehindGate(playerPreviousPos))]_vars

\* after an exit a detection tick has recorded a position behind the gate: the
\* gate is armed again
C35_RearmedAfterExit ==
    /\ playerBallisticMode
    /\ ~playerRampMode
    /\ pc = "render"
    /\ "gateDetection" \in Range(calls)
    /\ MemoryBehindGate(playerPreviousPos)


----------------------------------------------------------------------------
(* Termination of a ride *)

----------------------------------------------------------------------------
(* The two evaluations of the submerged test in a frame *)

\* C37: within one tick the camera's reading of the submerged flag and the
\* classification of Player.update agree: the second evaluation of the
\* hysteresis test, at the same body position, returns what the first returned
\* (the camera resolved the ocean mode exactly when the ocean controller is
\* dispatched) and leaves the flag as the first evaluation set it
C37_SecondReadingAgrees ==
    [][(PlayerTick /\ ~cam.isFreeRoam)
          => /\ oceanActive' = oceanActive
             /\ ((cam.mode = "ocean") <=> ("oceanMode.update" \in Range(calls')))
             /\ IsInOceanState(IsInOceanState(PlayerNow)).oceanActive
                  = IsInOceanState(PlayerNow).oceanActive]_vars

\* both evaluations ran inside the hysteresis band with the flag set: the
\* camera resolved the ocean mode and the ocean controller was dispatched
C37_BothReadInBand ==
    /\ pc = "rampL"
    /\ ~cam.isFreeRoam
    /\ cam.mode = "ocean"
    /\ "oceanMode.update" \in Range(calls)
    /\ groupPos[2] > seaLevel
    /\ groupPos[2] <= seaLevel + exitThreshold


====
